---- MODULE Spec2Model ----
(***************************************************************************)
(* Request admission control of the FingerFlow backend:                    *)
(*   RateLimitMiddleware      app/middleware/rate_limit.py                 *)
(*   AuthRateLimitMiddleware  app/middleware/auth_rate_limit.py            *)
(*   CSRFMiddleware           app/middleware/csrf_protection.py            *)
(* Every middleware is an ASGI callable around the next application.  Its   *)
(* synchronous bookkeeping runs without an await, so one call is one       *)
(* action, taken at the instant `now` that time.time() returns.  Time is   *)
(* counted in whole seconds.  The switches of the configuration are at     *)
(* their defaults (rate_limit_enabled, csrf_protection_enabled) and every  *)
(* request is an HTTP request.                                              *)
(***************************************************************************)
EXTENDS Integers, Sequences, FiniteSets, TLC

VARIABLES
    now,             \* the wall clock read by time.time()
    request_counts,  \* RateLimitMiddleware.request_counts: ip -> [(ts, count)]
    attempts,        \* AuthRateLimitMiddleware.attempts: (ip, path) -> [(ts, failed)]
    lockouts,        \* AuthRateLimitMiddleware.lockouts: (ip, path) -> lockout_until
    last,            \* what the last call did: the request and the response sent
    under_test,      \* the middleware instance the run drives
    inflight,        \* the handlers suspended in `await self.app(...)`
    journal,         \* what has happened so far: admissions, failed logins
    db,              \* the database: users, refresh and password-reset tokens
    held,            \* what the clients have been handed: tokens, exchanges
    flock_holder,    \* the worker that holds the lock on the migration lock file
    workers          \* the workers of the server: where each is in its startup

vars ==
    <<now, request_counts, attempts, lockouts, last, under_test, inflight,
      journal, db, held, flock_holder, workers>>

(***************************************************************************)
(* Bounds of the exploration.                                               *)
(***************************************************************************)
\* settings.rate_limit_requests is configuration (default 100); the model
\* runs the general limiter with a small quota.
max_requests == 3
\* the general limiter's clock advances until it has reached this instant
MaxTime == 100
\* the failure counts the backoff formula is evaluated for
FailureProbe == 12

\* how far one tick moves the general limiter's clock
GeneralSteps == {20, 40}
\* the instants at which the auth limiter is observed: around the lockouts
\* of 60, 120 and 240 seconds and around the ends of the 900 second window
AuthInstants == {0, 60, 120, 180, 420, 900, 960, 1080}

\* how many handlers are suspended in the application at the same time
MaxInflight == 2
\* how many token strings the runs on the database make
MaxTokens == 3

Clients == {"10.0.0.1", "10.0.0.2"}
AuthClients == {"10.0.0.1"}

(***************************************************************************)
(* Configuration and program constants.                                     *)
(***************************************************************************)
window_seconds == 60
cleanup_threshold == 10000
lockout_threshold == 3
lockout_base == 60
lockout_cap == 900
failure_window == 900
token_expiration == 3600

\* AuthRateLimitMiddleware.rate_limits: path -> (max_attempts, window_seconds)
TrackedPaths ==
    {"/auth/login", "/auth/register", "/auth/2fa-verify",
     "/api/users/forgot-password", "/api/users/reset-password",
     "/api/users/change-password"}

rate_limits ==
    [p \in TrackedPaths |->
        CASE p = "/auth/login" -> <<5, 900>>
          [] p = "/auth/register" -> <<3, 3600>>
          [] p = "/auth/2fa-verify" -> <<5, 900>>
          [] p = "/api/users/forgot-password" -> <<3, 3600>>
          [] p = "/api/users/reset-password" -> <<3, 3600>>
          [] p = "/api/users/change-password" -> <<5, 1800>>]

\* a header that is not sent
Absent == 0 - 1

Min(a, b) == IF a < b THEN a ELSE b
Max(a, b) == IF a > b THEN a ELSE b

\* d[k] of a defaultdict(list) read without storing the default
Lookup(d, k) == IF k \in DOMAIN d THEN d[k] ELSE <<>>

\* d[k] = v
Store(d, k, v) == [x \in DOMAIN d \cup {k} |-> IF x = k THEN v ELSE d[x]]

\* del d[k]
Delete(d, k) == [x \in DOMAIN d \ {k} |-> d[x]]

\* no session id (None)
NoSession == "-"

\* no JSON web token
NoJwt ==
    [signed |-> FALSE, user_id |-> Absent, email |-> "", temp_2fa |-> FALSE,
     exp |-> Absent]

\* the X-CSRF-Token header of a request that carries none
NoToken == [kind |-> "none", session_id |-> NoSession, issued_at |-> 0]

(***************************************************************************)
(* What a call leaves behind for the observer: the request, whether the    *)
(* next application was called, and the response the middleware wrote or   *)
(* the headers it adds to the application's response.  count is the        *)
(* total the admission decision compared with the limit, unlocked tells    *)
(* that _is_locked_out deleted an expired entry, failed_count is the       *)
(* number of failures a lockout was entered with.  session_id, max_age    *)
(* and valid belong to a call of the token service, raised names the       *)
(* exception a call ended with, ran lists the stages of the middleware     *)
(* stack a request went through and by names the stage that answered it.   *)
(* fault names the exception that was raised inside the bookkeeping while  *)
(* the request was handled, whether or not it was caught.  A call of a     *)
(* route handler leaves the body of the request (email, password, code,    *)
(* secret: the refresh or reset token presented), the bearer token of      *)
(* its Authorization header, and the tokens of its response.  headers are  *)
(* the headers of the response as they leave the middleware stack.         *)
(***************************************************************************)
NoCall ==
    [op |-> "none", ip |-> "", path |-> "", method |-> "", t |-> 0,
     forwarded |-> FALSE, status |-> 0, detail |-> "",
     retry_after |-> Absent, limit |-> Absent, remaining |-> Absent,
     reset |-> Absent, count |-> Absent, locked |-> FALSE,
     unlocked |-> FALSE, failed_count |-> Absent, token |-> NoToken,
     session_id |-> NoSession, max_age |-> Absent, valid |-> FALSE,
     raised |-> "", ran |-> <<>>, by |-> "", fault |-> "",
     email |-> "", password |-> "", code |-> "", secret |-> Absent,
     bearer |-> NoJwt, access_token |-> NoJwt, temp_token |-> NoJwt,
     refresh_token |-> Absent, requires_2fa |-> FALSE, headers |-> <<>>]

(***************************************************************************)
(* RateLimitMiddleware                                                      *)
(***************************************************************************)
\* mutant: the window closed at its old end
RateLimit_in_window_closed(ts, window_start) == ts >= window_start

\* rate_limit.py:98 and :124, the window test of one record
RateLimit_in_window(ts, window_start) == ts > window_start

RECURSIVE SumCounts(_)
SumCounts(reqs) ==
    IF reqs = <<>> THEN 0 ELSE Head(reqs).count + SumCounts(Tail(reqs))

RateLimit_prune(reqs, window_start) ==
    SelectSeq(reqs, LAMBDA r : RateLimit_in_window(r.ts, window_start))

\* mutant: only the identities seen at this very instant are kept
RateLimit_cleanup_old_ips_instant(counts, window_start) ==
    LET ips_to_remove ==
            {ip \in DOMAIN counts :
                ~ \E i \in 1..Len(counts[ip]) :
                    counts[ip][i].ts >= window_start + window_seconds}
    IN  [ip \in DOMAIN counts \ ips_to_remove |-> counts[ip]]

\* _cleanup_old_ips: the store without the identities that have no request
\* inside the window
RateLimit_cleanup_old_ips(counts, window_start) ==
    LET ips_to_remove ==
            {ip \in DOMAIN counts :
                ~ \E i \in 1..Len(counts[ip]) :
                    RateLimit_in_window(counts[ip][i].ts, window_start)}
    IN  [ip \in DOMAIN counts \ ips_to_remove |-> counts[ip]]

\* mutant: one request more than the quota gets through
RateLimit_over_limit_strict(total_requests) == total_requests > max_requests

\* rate_limit.py:104
RateLimit_over_limit(total_requests) == total_requests >= max_requests

\* mutant: the admitted request is written back without its own record
RateLimit_is_allowed_norecord(counts, ip, current_time) ==
    LET window_start == current_time - window_seconds
        cleaned == Store(counts, ip, RateLimit_prune(Lookup(counts, ip), window_start))
        total_requests == SumCounts(cleaned[ip])
    IN  [allowed |-> ~RateLimit_over_limit(total_requests),
         total |-> total_requests, counts |-> cleaned]

\* _is_allowed: the verdict and the store it leaves
RateLimit_is_allowed(counts, ip, current_time) ==
    LET window_start == current_time - window_seconds
        cleaned == Store(counts, ip, RateLimit_prune(Lookup(counts, ip), window_start))
        total_requests == SumCounts(cleaned[ip])
        added == Store(cleaned, ip,
                       Append(cleaned[ip], [ts |-> current_time, count |-> 1]))
    IN  IF RateLimit_over_limit(total_requests)
        THEN [allowed |-> FALSE, total |-> total_requests, counts |-> cleaned]
        ELSE [allowed |-> TRUE, total |-> total_requests,
              counts |-> IF Cardinality(DOMAIN added) > cleanup_threshold
                         THEN RateLimit_cleanup_old_ips(added, window_start)
                         ELSE added]

\* mutant: the current request is subtracted a second time
RateLimit_get_remaining_twice(counts, ip, current_time) ==
    LET window_start == current_time - window_seconds
        total_requests ==
            SumCounts(RateLimit_prune(Lookup(counts, ip), window_start))
    IN  Max(0, max_requests - total_requests - 1)

\* _get_remaining; reading request_counts[ip] stores the default list
RateLimit_get_remaining(counts, ip, current_time) ==
    LET window_start == current_time - window_seconds
        total_requests ==
            SumCounts(RateLimit_prune(Lookup(counts, ip), window_start))
    IN  Max(0, max_requests - total_requests)

\* mutant: only /health is exempt
RateLimit_exempt_health(path) == path = "/health"

\* rate_limit.py:45
RateLimit_exempt(path) == path \in {"/health", "/"}

\* RateLimitMiddleware.__call__ for one HTTP request at time t: the store it
\* leaves and what it did
RateLimit_handle(counts, ip, path, method, t) ==
    LET req == [NoCall EXCEPT !.op = "rate", !.ip = ip, !.path = path,
                   !.method = method, !.t = t]
        verdict == RateLimit_is_allowed(counts, ip, t)
    IN  IF RateLimit_exempt(path)
        THEN [counts |-> counts, resp |-> [req EXCEPT !.forwarded = TRUE]]
        ELSE IF ~verdict.allowed
        THEN [counts |-> verdict.counts,
              resp |-> [req EXCEPT !.status = 429, !.count = verdict.total,
                                   !.detail = "Too many requests",
                                   !.retry_after = window_seconds]]
        ELSE [counts |-> Store(verdict.counts, ip, Lookup(verdict.counts, ip)),
              resp |-> [req EXCEPT !.forwarded = TRUE, !.count = verdict.total,
                                   !.limit = max_requests,
                                   !.remaining =
                                       RateLimit_get_remaining(verdict.counts, ip, t),
                                   !.reset = t + window_seconds]]

\* RateLimitMiddleware.__call__ for a request during which _is_allowed
\* raises error before it has changed the store: __call__ has no try
\* statement, so the exception leaves it
RateLimit_handle_raising(counts, ip, path, method, t, error) ==
    IF RateLimit_exempt(path)
    THEN RateLimit_handle(counts, ip, path, method, t)
    ELSE [counts |-> counts,
          resp |-> [NoCall EXCEPT !.op = "rate", !.ip = ip, !.path = path,
                       !.method = method, !.t = t, !.fault = error,
                       !.raised = error]]

\* one request handled by a RateLimitMiddleware on its own
RateLimit_call(ip, path, method) ==
    LET done == RateLimit_handle(request_counts, ip, path, method, now)
    IN  /\ request_counts' = done.counts
        /\ last' = done.resp

(***************************************************************************)
(* AuthRateLimitMiddleware                                                  *)
(***************************************************************************)
\* self.rate_limits.get(path, (100, 60))
Auth_limits(path) ==
    IF path \in TrackedPaths THEN rate_limits[path] ELSE <<100, 60>>

\* mutant: an attempt made exactly a window ago still counts
Auth_in_window_closed(ts, window_start) == ts >= window_start

\* auth_rate_limit.py:158 and :210, the window test of one attempt
Auth_in_window(ts, window_start) == ts > window_start

Auth_prune(recs, window_start) ==
    SelectSeq(recs, LAMBDA r : Auth_in_window(r.ts, window_start))

\* mutant: every attempt counts as a failure
Auth_failed_count_all(recs) == Len(recs)

\* sum(1 for _, failed in recs if failed)
Auth_failed_count(recs) == Len(SelectSeq(recs, LAMBDA r : r.failed))

\* mutant: the backoff is one doubling ahead
Auth_lockout_duration_ahead(failed_count) ==
    Min(lockout_cap, lockout_base * (2 ^ (failed_count - 2)))

\* mutant: the backoff counts in hours
Auth_lockout_duration_hours(failed_count) ==
    lockout_base * lockout_base * (2 ^ (failed_count - 3))

\* mutant: the backoff grows linearly
Auth_lockout_duration_linear(failed_count) ==
    Min(lockout_cap, lockout_base * (failed_count - 2))

\* min(900, 60 * (2 ** (failed_count - 3)))
Auth_lockout_duration(failed_count) ==
    Min(lockout_cap, lockout_base * (2 ^ (failed_count - 3)))

\* mutant: one attempt more than the endpoint allows gets through
Auth_over_limit_strict(total_attempts, max_attempts) ==
    total_attempts > max_attempts

\* auth_rate_limit.py:164
Auth_over_limit(total_attempts, max_attempts) == total_attempts >= max_attempts

\* mutant: the lockout starts one failure late
Auth_enough_failures_strict(failed_count) == failed_count > lockout_threshold

\* auth_rate_limit.py:167 and :242
Auth_enough_failures(failed_count) == failed_count >= lockout_threshold

\* mutant: the comparison turned around
Auth_lockout_active_inverted(current_time, lockout_until) ==
    current_time > lockout_until

\* mutant: still locked at lockout_until itself
Auth_lockout_active_closed(current_time, lockout_until) ==
    current_time <= lockout_until

\* auth_rate_limit.py:192
Auth_lockout_active(current_time, lockout_until) == current_time < lockout_until

\* mutant: an expired lockout takes every other lockout with it
Auth_is_locked_out_sweeping(lk, key, current_time) ==
    IF key \notin DOMAIN lk
    THEN [locked |-> FALSE, lockouts |-> lk]
    ELSE IF Auth_lockout_active(current_time, lk[key])
         THEN [locked |-> TRUE, lockouts |-> lk]
         ELSE [locked |-> FALSE, lockouts |-> <<>>]

\* _is_locked_out: the verdict and the lockout store it leaves
Auth_is_locked_out(lk, key, current_time) ==
    IF key \notin DOMAIN lk
    THEN [locked |-> FALSE, lockouts |-> lk]
    ELSE IF Auth_lockout_active(current_time, lk[key])
         THEN [locked |-> TRUE, lockouts |-> lk]
         ELSE [locked |-> FALSE, lockouts |-> Delete(lk, key)]

\* mutant: the attempt is recorded as failed from the start
Auth_new_attempt_failed(current_time) == [ts |-> current_time, failed |-> TRUE]

\* the record appended for an admitted request (auth_rate_limit.py:181)
Auth_new_attempt(current_time) == [ts |-> current_time, failed |-> FALSE]

\* _is_allowed: the verdict and the two stores it leaves
Auth_is_allowed(att, lk, ip, path, current_time) ==
    LET max_attempts == Auth_limits(path)[1]
        window_start == current_time - Auth_limits(path)[2]
        key == <<ip, path>>
        cleaned == Auth_prune(Lookup(att, key), window_start)
        total_attempts == Len(cleaned)
        failed_count == Auth_failed_count(cleaned)
    IN  IF Auth_over_limit(total_attempts, max_attempts)
        THEN IF Auth_enough_failures(failed_count)
             THEN [allowed |-> FALSE, total |-> total_attempts,
                   attempts |-> Store(att, key, cleaned),
                   lockouts |-> Store(lk, key,
                       current_time + Auth_lockout_duration(failed_count)),
                   failed_count |-> failed_count]
             ELSE [allowed |-> FALSE, total |-> total_attempts,
                   attempts |-> Store(att, key, cleaned),
                   lockouts |-> lk, failed_count |-> Absent]
        ELSE [allowed |-> TRUE, total |-> total_attempts,
              attempts |-> Store(att, key,
                                 Append(cleaned, Auth_new_attempt(current_time))),
              lockouts |-> lk, failed_count |-> Absent]

\* _get_remaining
Auth_get_remaining(att, ip, path, current_time) ==
    LET max_attempts == Auth_limits(path)[1]
        window_start == current_time - Auth_limits(path)[2]
        total_attempts == Len(Auth_prune(Lookup(att, <<ip, path>>), window_start))
    IN  Max(0, max_attempts - total_attempts)

\* mutant: the marked attempt is stamped anew
Auth_mark_failed_restamped(last_attempt) ==
    [ts |-> last_attempt.ts + 1, failed |-> TRUE]

\* the record record_auth_failure writes over the last attempt
Auth_mark_failed(last_attempt) == [ts |-> last_attempt.ts, failed |-> TRUE]

\* sum(1 for ts, failed in recs if ts > window_start and failed)
Auth_recent_failures(recs, window_start) ==
    Len(SelectSeq(recs, LAMBDA r : Auth_in_window(r.ts, window_start) /\ r.failed))

\* mutant: the instant the lockout ends is sent instead of the time left
Auth_retry_after_until(lockout_until, current_time) == lockout_until

\* auth_rate_limit.py:67, with both readings of the clock in the same second
Auth_retry_after(lockout_until, current_time) == lockout_until - current_time

\* AuthRateLimitMiddleware.__call__ for one HTTP request at time t: the
\* stores it leaves and what it did
Auth_handle(att, lk, ip, path, method, t) ==
    LET key == <<ip, path>>
        lock == Auth_is_locked_out(lk, key, t)
        req == [NoCall EXCEPT !.op = "auth", !.ip = ip, !.path = path,
                   !.method = method, !.t = t,
                   !.unlocked = (path \in DOMAIN rate_limits
                                 /\ lock.lockouts # lk)]
        verdict == Auth_is_allowed(att, lock.lockouts, ip, path, t)
    IN  IF path \notin DOMAIN rate_limits
        THEN [attempts |-> att, lockouts |-> lk,
              resp |-> [req EXCEPT !.forwarded = TRUE]]
        ELSE IF lock.locked
        THEN [attempts |-> att, lockouts |-> lock.lockouts,
              resp |-> [req EXCEPT !.status = 429, !.locked = TRUE,
                                   !.detail = "Too many failed attempts",
                                   !.retry_after = Auth_retry_after(lk[key], t),
                                   !.limit = 0, !.remaining = 0]]
        ELSE IF ~verdict.allowed
        THEN [attempts |-> verdict.attempts, lockouts |-> verdict.lockouts,
              resp |-> [req EXCEPT !.status = 429, !.count = verdict.total,
                                   !.detail = "Too many requests",
                                   !.retry_after = Auth_limits(path)[2],
                                   !.failed_count = verdict.failed_count]]
        ELSE [attempts |-> verdict.attempts, lockouts |-> verdict.lockouts,
              resp |-> [req EXCEPT !.forwarded = TRUE, !.count = verdict.total,
                                   !.limit = Auth_limits(path)[1],
                                   !.remaining =
                                       Auth_get_remaining(verdict.attempts, ip,
                                                          path, t)]]

\* AuthRateLimitMiddleware.__call__ for a request during which _is_allowed
\* raises error before it has changed the stores: __call__ has no try
\* statement, so the exception leaves it
Auth_handle_raising(att, lk, ip, path, method, t, error) ==
    LET lock == Auth_is_locked_out(lk, <<ip, path>>, t)
    IN  IF path \notin DOMAIN rate_limits \/ lock.locked
        THEN Auth_handle(att, lk, ip, path, method, t)
        ELSE [attempts |-> att, lockouts |-> lock.lockouts,
              resp |-> [NoCall EXCEPT !.op = "auth", !.ip = ip, !.path = path,
                           !.method = method, !.t = t,
                           !.unlocked = (lock.lockouts # lk),
                           !.fault = error, !.raised = error]]

\* one request handled by an AuthRateLimitMiddleware on its own
Auth_call(ip, path, method) ==
    LET done == Auth_handle(attempts, lockouts, ip, path, method, now)
    IN  /\ attempts' = done.attempts
        /\ lockouts' = done.lockouts
        /\ last' = done.resp

\* AuthRateLimitMiddleware.record_auth_failure
record_auth_failure(ip, path) ==
    LET key == <<ip, path>>
        req == [NoCall EXCEPT !.op = "fail", !.ip = ip, !.path = path, !.t = now]
    IN  IF key \in DOMAIN attempts /\ attempts[key] # <<>>
        THEN LET n == Len(attempts[key])
                 marked == [attempts[key] EXCEPT
                               ![n] = Auth_mark_failed(attempts[key][n])]
                 window_start == now - failure_window
                 recent_failures == Auth_recent_failures(marked, window_start)
             IN  /\ attempts' = Store(attempts, key, marked)
                 /\ IF Auth_enough_failures(recent_failures)
                    THEN /\ lockouts' = Store(lockouts, key,
                                 now + Auth_lockout_duration(recent_failures))
                         /\ last' = [req EXCEPT !.failed_count = recent_failures]
                    ELSE /\ lockouts' = lockouts
                         /\ last' = req
        ELSE /\ last' = req
             /\ UNCHANGED <<attempts, lockouts>>

(***************************************************************************)
(* CSRFProtection and CSRFMiddleware                                        *)
(* A token is what URLSafeTimedSerializer.dumps signs: the payload and the *)
(* time of signing.  kind tells what the X-CSRF-Token header holds:        *)
(*   "none"    no header, or an empty one                                  *)
(*   "signed"  a token signed with the server's secret and the csrf salt   *)
(*   "forged"  a well-formed token whose signature does not verify         *)
(*   "garbage" a string that is no token                                   *)
(*   "undecodable" header bytes that are not UTF-8                         *)
(*   "unloadable" a string whose signature verifies and whose payload      *)
(*              does not load: loads raises BadPayload, which is neither   *)
(*              BadSignature nor SignatureExpired                          *)
(***************************************************************************)
\* mutant: the token is signed under another salt than the one loads uses
generate_token_other_salt(session_id, t) ==
    [kind |-> "forged",
     session_id |-> IF session_id # NoSession /\ session_id # ""
                    THEN session_id ELSE NoSession,
     issued_at |-> t]

\* CSRFProtection.generate_token at time t
generate_token(session_id, t) ==
    [kind |-> "signed",
     session_id |-> IF session_id # NoSession /\ session_id # ""
                    THEN session_id ELSE NoSession,
     issued_at |-> t]

\* mutant: loads is called without max_age
serializer_loads_no_max_age(token, max_age, t) ==
    IF token.kind \notin {"signed", "unloadable"}
    THEN [raised |-> "BadSignature"]
    ELSE IF token.kind = "unloadable" THEN [raised |-> "BadPayload"]
    ELSE [raised |-> "", session_id |-> token.session_id]

\* serializer.loads(token, max_age): the payload, or the exception raised
\* (the signature and the age are checked before the payload is loaded)
serializer_loads(token, max_age, t) ==
    IF token.kind \notin {"signed", "unloadable"}
    THEN [raised |-> "BadSignature"]
    ELSE IF t - token.issued_at > max_age THEN [raised |-> "SignatureExpired"]
    ELSE IF token.kind = "unloadable" THEN [raised |-> "BadPayload"]
    ELSE [raised |-> "", session_id |-> token.session_id]

\* mutant: the session ids are compared even when the token embeds none
session_mismatch_strict(session_id, token_session) ==
    /\ session_id # NoSession /\ session_id # ""
    /\ token_session # session_id

\* csrf_protection.py:79-81
session_mismatch(session_id, token_session) ==
    /\ session_id # NoSession /\ session_id # ""
    /\ token_session # NoSession
    /\ token_session # session_id

\* mutant: validate_token has the two named except clauses only
validate_token_catches_named(raised) ==
    raised \in {"SignatureExpired", "BadSignature"}

\* csrf_protection.py:87-95: the except clauses of validate_token; the last
\* one catches every Exception
validate_token_catches(raised) ==
    \/ raised \in {"SignatureExpired", "BadSignature"}
    \/ raised # ""

\* the body of validate_token with token_expiration = max_age: the value
\* it returns, or the exception that leaves it
validate_token_try(max_age, token, session_id, t) ==
    LET payload == serializer_loads(token, max_age, t)
    IN  IF payload.raised # ""
        THEN IF validate_token_catches(payload.raised)
             THEN [returned |-> FALSE, raised |-> ""]
             ELSE [returned |-> FALSE, raised |-> payload.raised]
        ELSE IF session_mismatch(session_id, payload.session_id)
        THEN [returned |-> FALSE, raised |-> ""]
        ELSE [returned |-> TRUE, raised |-> ""]

\* validate_token of a CSRFProtection built with token_expiration = max_age
validate_token_within(max_age, token, session_id, t) ==
    validate_token_try(max_age, token, session_id, t).returned

\* mutant: a token is refused unless it is bound to the session given, so a
\* bound token is refused when none is given
validate_token_bound(token, session_id, t) ==
    LET tried == validate_token_try(token_expiration, token, session_id, t)
    IN  [tried EXCEPT !.returned = @ /\ token.session_id = session_id]

\* CSRFProtection.validate_token at time t, token_expiration at its default
validate_token(token, session_id, t) ==
    validate_token_try(token_expiration, token, session_id, t)

\* CSRFMiddleware.__init__: default_exempt
exempt_paths ==
    {"/health", "/", "/docs", "/redoc", "/openapi.json",
     "/auth/login", "/auth/register", "/auth/refresh", "/auth/google/callback"}

\* str.startswith
StartsWith(s, prefix) ==
    Len(prefix) <= Len(s) /\ SubSeq(s, 1, Len(prefix)) = prefix

\* csrf_protection.py:157
CSRF_state_changing(method) == method \in {"POST", "PUT", "PATCH", "DELETE"}

\* csrf_protection.py:161-166
CSRF_exempt(path) ==
    \/ path \in exempt_paths
    \/ \E exempt \in exempt_paths : StartsWith(path, exempt)

\* mutant: the 403 for an expired token says so
CSRF_handle_telling(method, path, token, t) ==
    LET req == [NoCall EXCEPT !.op = "csrf", !.path = path, !.method = method,
                   !.t = t, !.token = token]
        validated == validate_token(token, NoSession, t)
    IN  IF ~CSRF_state_changing(method) THEN [req EXCEPT !.forwarded = TRUE]
        ELSE IF CSRF_exempt(path) THEN [req EXCEPT !.forwarded = TRUE]
        ELSE IF token.kind = "undecodable"
        THEN [req EXCEPT !.raised = "UnicodeDecodeError"]
        ELSE IF token.kind = "none"
        THEN [req EXCEPT !.status = 403,
                         !.detail = "CSRF token missing or invalid"]
        ELSE IF validated.raised # ""
        THEN [req EXCEPT !.raised = validated.raised]
        ELSE IF ~validated.returned
        THEN [req EXCEPT !.status = 403,
                         !.detail =
                             IF serializer_loads(token, token_expiration,
                                                 t).raised = "SignatureExpired"
                             THEN "CSRF token expired"
                             ELSE "CSRF token invalid or expired"]
        ELSE [req EXCEPT !.forwarded = TRUE]

\* CSRFMiddleware.__call__ for one HTTP request at time t: what it did
CSRF_handle(method, path, token, t) ==
    LET req == [NoCall EXCEPT !.op = "csrf", !.path = path, !.method = method,
                   !.t = t, !.token = token]
        validated == validate_token(token, NoSession, t)
    IN  IF ~CSRF_state_changing(method) THEN [req EXCEPT !.forwarded = TRUE]
        ELSE IF CSRF_exempt(path) THEN [req EXCEPT !.forwarded = TRUE]
        ELSE IF token.kind = "undecodable"
        THEN [req EXCEPT !.raised = "UnicodeDecodeError"]
        ELSE IF token.kind = "none"
        THEN [req EXCEPT !.status = 403,
                         !.detail = "CSRF token missing or invalid"]
        ELSE IF validated.raised # ""
        THEN [req EXCEPT !.raised = validated.raised]
        ELSE IF ~validated.returned
        THEN [req EXCEPT !.status = 403,
                         !.detail = "CSRF token invalid or expired"]
        ELSE [req EXCEPT !.forwarded = TRUE]

\* one request handled by a CSRFMiddleware on its own
CSRF_call(method, path, token) == last' = CSRF_handle(method, path, token, now)

(***************************************************************************)
(* HTTPSRedirectMiddleware.  The values of the headers are bytes; the      *)
(* middleware decodes them as UTF-8, which raises UnicodeDecodeError for   *)
(* bytes that are none.                                                    *)
(***************************************************************************)
\* header bytes that bytes.decode() does not accept
Undecodable == "\\xff"

\* bytes.decode(): the string, or the exception raised
decode(bytes) ==
    IF bytes = Undecodable THEN [raised |-> "UnicodeDecodeError", str |-> ""]
    ELSE [raised |-> "", str |-> bytes]

\* HTTPSRedirectMiddleware.__call__ for one HTTP request at time t
HTTPS_handle(enabled, scheme, headers, path, query_string, t) ==
    LET req == [NoCall EXCEPT !.op = "https", !.path = path, !.t = t]
        forwarded_proto == decode(headers.x_forwarded_proto)
        host == decode(headers.host)
        query == decode(query_string)
    IN  IF ~enabled THEN [req EXCEPT !.forwarded = TRUE]
        ELSE IF forwarded_proto.raised # ""
        THEN [req EXCEPT !.raised = forwarded_proto.raised]
        ELSE IF scheme = "https" \/ forwarded_proto.str = "https"
        THEN [req EXCEPT !.forwarded = TRUE]
        ELSE IF host.raised # "" THEN [req EXCEPT !.raised = host.raised]
        ELSE IF query.raised # "" THEN [req EXCEPT !.raised = query.raised]
        ELSE [req EXCEPT !.status = 301, !.detail = "Redirecting to HTTPS"]

(***************************************************************************)
(* The application main.py assembles.  add_middleware is called for CORS,  *)
(* security headers, CSRF, the auth limiter and the general limiter, in    *)
(* this order (the HTTPS redirect is off by default).  Starlette puts each *)
(* added middleware in front of the ones added before it, so the one added *)
(* last is the outermost.  A request runs through the stack without being  *)
(* suspended until a stage sends a response or the route handler is        *)
(* reached, so the way through the stack is one step.                      *)
(***************************************************************************)
\* main.py:92-128, in the order of the calls
added_middleware == <<"cors", "headers", "csrf", "auth", "rate">>

RECURSIVE Reverse(_)
Reverse(seq) ==
    IF seq = <<>> THEN <<>> ELSE Append(Reverse(Tail(seq)), Head(seq))

\* Starlette.add_middleware: self.user_middleware.insert(0, ...); the stack
\* is built with the first of user_middleware outermost
middleware_stack == Reverse(added_middleware)

\* one header of a response
Header(name, value) == [name |-> name, value |-> value]

\* send_with_headers of RateLimitMiddleware.__call__: the headers of the
\* response start that passes it, extended (rate_limit.py:75-88); done is
\* what the call computed before it called the application
RateLimit_send_with_headers(done, headers) ==
    headers \o <<Header("x-ratelimit-limit", done.limit),
                 Header("x-ratelimit-remaining", done.remaining),
                 Header("x-ratelimit-reset", done.reset)>>

\* send_with_headers of AuthRateLimitMiddleware.__call__
\* (auth_rate_limit.py:135-145)
Auth_send_with_headers(done, headers) ==
    headers \o <<Header("x-ratelimit-limit", done.limit),
                 Header("x-ratelimit-remaining", done.remaining)>>

\* the headers a limiter sends with a response of its own
\* (rate_limit.py:60-66, auth_rate_limit.py:82-91 and :116-123)
Own_headers(resp) ==
    (IF resp.retry_after # Absent
     THEN <<Header("retry-after", resp.retry_after)>> ELSE <<>>)
    \o (IF resp.limit # Absent
        THEN <<Header("x-ratelimit-limit", resp.limit),
               Header("x-ratelimit-remaining", resp.remaining)>>
        ELSE <<>>)

\* the response start goes up the stack through the send callables the
\* stages handed down, the innermost first
RECURSIVE Stack_send(_, _)
Stack_send(wrappers, headers) ==
    IF wrappers = <<>>
    THEN headers
    ELSE Stack_send(Tail(wrappers),
                    IF Head(wrappers).op = "rate"
                    THEN RateLimit_send_with_headers(Head(wrappers), headers)
                    ELSE Auth_send_with_headers(Head(wrappers), headers))

\* the instances of the stack share nothing but the request; wrappers are
\* the send callables the stages passed so far have handed down
Stack_stores(counts, att, lk) ==
    [counts |-> counts, attempts |-> att, lockouts |-> lk, resp |-> NoCall,
     wrappers |-> <<>>]

\* a limiter that calls self.app passes its send_with_headers down
\* (rate_limit.py:88, auth_rate_limit.py:145); a stage that is off for the
\* request passes the send it was given
Stack_wrap(resp, wrappers) ==
    IF resp.forwarded /\ resp.limit # Absent
    THEN <<resp>> \o wrappers
    ELSE wrappers

\* the response of the stage that answers, as it leaves the stack
Stack_answer(resp, stage, ran, req, wrappers) ==
    [resp EXCEPT !.op = "chain", !.token = req.token,
                 !.ran = Append(ran, stage), !.by = stage,
                 !.headers = Stack_send(wrappers, Own_headers(resp))]

\* one stage of the stack handles the request req at time t
Stack_stage(stage, st, req, t) ==
    CASE stage = "rate" ->
            LET done == RateLimit_handle(st.counts, req.ip, req.path,
                                         req.method, t)
            IN  [st EXCEPT !.counts = done.counts, !.resp = done.resp,
                           !.wrappers = Stack_wrap(done.resp, @)]
      [] stage = "auth" ->
            LET done == Auth_handle(st.attempts, st.lockouts, req.ip, req.path,
                                    req.method, t)
            IN  [st EXCEPT !.attempts = done.attempts,
                           !.lockouts = done.lockouts, !.resp = done.resp,
                           !.wrappers = Stack_wrap(done.resp, @)]
      [] stage = "csrf" ->
            [st EXCEPT !.resp = CSRF_handle(req.method, req.path, req.token, t)]
      [] OTHER ->
            \* security headers, and CORS for a request that is no preflight
            [st EXCEPT !.resp = [NoCall EXCEPT !.forwarded = TRUE]]

\* the request goes down the stack: every stage that calls self.app hands
\* it to the next one, the first that sends a response ends the way
RECURSIVE Stack_run(_, _, _, _, _)
Stack_run(stack, st, ran, req, t) ==
    IF stack = <<>>
    THEN [st EXCEPT !.resp =
             [NoCall EXCEPT !.op = "chain", !.ip = req.ip, !.path = req.path,
                            !.method = req.method, !.t = t, !.token = req.token,
                            !.forwarded = TRUE, !.ran = Append(ran, "app"),
                            !.by = "app",
                            !.headers = Stack_send(st.wrappers, <<>>)]]
    ELSE LET stage == Head(stack)
             next == Stack_stage(stage, st, req, t)
         IN  IF next.resp.forwarded
             THEN Stack_run(Tail(stack), next, Append(ran, stage), req, t)
             ELSE [next EXCEPT !.resp =
                      Stack_answer(@, stage, ran, req, st.wrappers)]

\* routes/auth_complete.py, login: the response of the handler.  A failed
\* credential check raises HTTPException(401); nothing in the handler, and
\* nothing else in the application, calls record_auth_failure, neither on
\* the limiter of the stack nor on the module's auth_rate_limiter.
login(credentials_ok) ==
    IF credentials_ok
    THEN [status |-> 200, detail |-> ""]
    ELSE [status |-> 401, detail |-> "Incorrect email or password"]

(***************************************************************************)
(* The accounts: the users, refresh tokens and password-reset tokens of    *)
(* the database and the route handlers that work on them.  Times in the   *)
(* database are milliseconds, int(time.time() * 1000).  A token string     *)
(* made by secrets.token_urlsafe(48) is modelled by a number no earlier    *)
(* call has returned; 0 is a string no call has returned.  A handler runs  *)
(* without being suspended (it awaits nothing), so it is one step.         *)
(***************************************************************************)
\* config.py: refresh_token_expire_days, access_token_expire_minutes
refresh_token_expire_days == 7
access_token_expire_minutes == 30
\* auth_complete.py:196: timedelta(minutes=5)
temp_token_minutes == 5

\* int(time.time() * 1000)
time_ms(t) == t * 1000

\* the column hashed_password of a user without a password
NoHash == <<>>

\* utils/auth.py get_password_hash: the bcrypt hash of the password
get_password_hash(password) == <<"bcrypt", password>>

\* utils/auth.py verify_password
verify_password(plain_password, hashed_password) ==
    /\ hashed_password # NoHash
    /\ hashed_password = get_password_hash(plain_password)

\* the users of the runs: one with a password, one who signs in with
\* Google, one with a password and two-factor authentication
InitialUsers ==
    (1 :> [email |-> "local@example.com", auth_provider |-> "local",
           hashed_password |-> get_password_hash("old-password"),
           two_factor_enabled |-> FALSE, two_factor_secret |-> "",
           two_factor_backup_codes |-> <<>>])
    @@ (2 :> [email |-> "oauth@example.com", auth_provider |-> "google",
              hashed_password |-> NoHash,
              two_factor_enabled |-> FALSE, two_factor_secret |-> "",
              two_factor_backup_codes |-> <<>>])
    @@ (3 :> [email |-> "totp@example.com", auth_provider |-> "local",
              hashed_password |-> get_password_hash("old-password"),
              two_factor_enabled |-> TRUE, two_factor_secret |-> "JBSWY3DP",
              two_factor_backup_codes |->
                  <<get_password_hash("BACKUP01")>>])

\* the tables; generated counts the token strings made so far
InitialDatabase ==
    [users |-> InitialUsers, refresh_tokens |-> <<>>,
     password_reset_tokens |-> <<>>, generated |-> 0]

\* nothing has been handed to a client yet
NothingHeld ==
    [jwts |-> {}, reset |-> <<>>, exchanged |-> <<>>, verified |-> {}]

\* select(User).where(User.email == email): the id, or Absent
UserByEmail(dbv, email) ==
    IF \E id \in DOMAIN dbv.users : dbv.users[id].email = email
    THEN CHOOSE id \in DOMAIN dbv.users : dbv.users[id].email = email
    ELSE Absent

\* select(...).where(token == value) on a table of tokens: the position of
\* the row, or 0
RowByToken(table, value) ==
    IF \E i \in 1..Len(table) : table[i].token = value
    THEN CHOOSE i \in 1..Len(table) : table[i].token = value
    ELSE 0

\* utils/auth.py create_access_token at time t, expires_delta in seconds
create_access_token(data, expires_delta, t) ==
    [signed |-> TRUE, user_id |-> data.user_id, email |-> data.email,
     temp_2fa |-> data.temp_2fa, exp |-> t + expires_delta]

\* create_access_token without expires_delta
create_default_access_token(user_id, email, t) ==
    create_access_token([user_id |-> user_id, email |-> email,
                         temp_2fa |-> FALSE],
                        access_token_expire_minutes * 60, t)

\* jose jwt.decode at time t: the claims, or JWTError for a token with a
\* wrong signature or an exp in the past
jwt_decode(token, t) ==
    IF ~token.signed \/ token.exp < t THEN [raised |-> "JWTError"]
    ELSE [raised |-> "", user_id |-> token.user_id, email |-> token.email,
          temp_2fa |-> token.temp_2fa]

\* models/token.py RefreshToken.is_expired
RefreshToken_is_expired(row, t) == time_ms(t) > row.expires_at

\* mutant: a revoked token stays valid until it expires
RefreshToken_is_valid_revoked(row, t) == ~RefreshToken_is_expired(row, t)

\* models/token.py RefreshToken.is_valid
RefreshToken_is_valid(row, t) ==
    ~row.revoked /\ ~RefreshToken_is_expired(row, t)

\* the RefreshToken row login, verify_2fa and refresh_access_token build
new_refresh_token(dbv, user_id, t) ==
    [token |-> dbv.generated + 1, user_id |-> user_id,
     created_at |-> time_ms(t),
     expires_at |-> time_ms(t)
                    + refresh_token_expire_days * 24 * 60 * 60 * 1000,
     revoked |-> FALSE]

\* db.add(refresh_token); db.commit()
add_refresh_token(dbv, row) ==
    [dbv EXCEPT !.refresh_tokens = Append(@, row), !.generated = @ + 1]

\* routes/auth_complete.py login, POST /auth/login, at time t: the database
\* it leaves and its response
auth_login(dbv, email, password, t) ==
    LET req == [NoCall EXCEPT !.op = "login", !.path = "/auth/login",
                   !.method = "POST", !.t = t, !.email = email,
                   !.password = password]
        id == UserByEmail(dbv, email)
        user == dbv.users[id]
        refresh_token == new_refresh_token(dbv, id, t)
    IN  IF id = Absent
        THEN [db |-> dbv,
              resp |-> [req EXCEPT !.status = 401,
                                   !.detail = "Incorrect email or password"]]
        ELSE IF user.auth_provider # "local"
        THEN [db |-> dbv,
              resp |-> [req EXCEPT !.status = 401,
                                   !.detail = "Incorrect email or password"]]
        ELSE IF ~verify_password(password, user.hashed_password)
        THEN [db |-> dbv,
              resp |-> [req EXCEPT !.status = 401,
                                   !.detail = "Incorrect email or password"]]
        ELSE IF user.two_factor_enabled
        THEN [db |-> dbv,
              resp |-> [req EXCEPT
                           !.status = 200, !.requires_2fa = TRUE,
                           !.detail = "Please provide 2FA code",
                           !.temp_token =
                               create_access_token(
                                   [user_id |-> id, email |-> user.email,
                                    temp_2fa |-> TRUE],
                                   temp_token_minutes * 60, t)]]
        ELSE [db |-> add_refresh_token(dbv, refresh_token),
              resp |-> [req EXCEPT
                           !.status = 200,
                           !.access_token =
                               create_default_access_token(id, user.email, t),
                           !.refresh_token = refresh_token.token]]

\* routes/auth_complete.py refresh_access_token, POST /auth/refresh
refresh_access_token(dbv, refresh_token, t) ==
    LET req == [NoCall EXCEPT !.op = "refresh", !.path = "/auth/refresh",
                   !.method = "POST", !.t = t, !.secret = refresh_token]
        i == RowByToken(dbv.refresh_tokens, refresh_token)
        token == dbv.refresh_tokens[i]
        new_token == new_refresh_token(dbv, token.user_id, t)
        rotated == [dbv EXCEPT !.refresh_tokens[i].revoked = TRUE]
    IN  IF i = 0
        THEN [db |-> dbv,
              resp |-> [req EXCEPT !.status = 401,
                           !.detail = "Invalid or expired refresh token"]]
        ELSE IF ~RefreshToken_is_valid(token, t)
        THEN [db |-> dbv,
              resp |-> [req EXCEPT !.status = 401,
                           !.detail = "Invalid or expired refresh token"]]
        ELSE IF token.user_id \notin DOMAIN dbv.users
        THEN [db |-> dbv,
              resp |-> [req EXCEPT !.status = 404,
                                   !.detail = "User not found"]]
        ELSE [db |-> add_refresh_token(rotated, new_token),
              resp |-> [req EXCEPT
                           !.status = 200,
                           !.access_token =
                               create_default_access_token(
                                   token.user_id,
                                   dbv.users[token.user_id].email, t),
                           !.refresh_token = new_token.token]]

\* routes/auth_complete.py revoke_refresh_token, POST /auth/revoke
revoke_refresh_token(dbv, refresh_token, t) ==
    LET req == [NoCall EXCEPT !.op = "revoke", !.path = "/auth/revoke",
                   !.method = "POST", !.t = t, !.secret = refresh_token]
        i == RowByToken(dbv.refresh_tokens, refresh_token)
    IN  [db |-> IF i = 0 THEN dbv
                ELSE [dbv EXCEPT !.refresh_tokens[i].revoked = TRUE],
         resp |-> [req EXCEPT !.status = 200, !.detail = "Token revoked"]]

\* models/token.py PasswordResetToken.is_expired
PasswordResetToken_is_expired(row, t) == time_ms(t) > row.expires_at

\* mutant: a used token stays valid until it expires
PasswordResetToken_is_valid_used(row, t) ==
    ~PasswordResetToken_is_expired(row, t)

\* models/token.py PasswordResetToken.is_valid
PasswordResetToken_is_valid(row, t) ==
    ~row.used /\ ~PasswordResetToken_is_expired(row, t)

\* the body every answer of forgot_password carries
forgot_password_message ==
    "If an account exists with this email, you will receive password reset instructions"

\* mutant: the tokens of earlier requests are kept
delete_reset_tokens_none(table, user_id) == table

\* users.py:186-189: delete(PasswordResetToken).where(user_id == user.id)
delete_reset_tokens(table, user_id) ==
    SelectSeq(table, LAMBDA row : row.user_id # user_id)

\* mutant: an account that signs in with Google is told so
forgot_password_telling(dbv, email, email_sent, t) ==
    LET req == [NoCall EXCEPT !.op = "forgot",
                   !.path = "/api/users/forgot-password", !.method = "POST",
                   !.t = t, !.email = email]
        id == UserByEmail(dbv, email)
        user == dbv.users[id]
        reset_token == [token |-> dbv.generated + 1, user_id |-> id,
                        created_at |-> time_ms(t),
                        expires_at |-> time_ms(t) + 60 * 60 * 1000,
                        used |-> FALSE]
        answer == [req EXCEPT !.status = 200,
                              !.detail = forgot_password_message]
    IN  IF id = Absent THEN [db |-> dbv, resp |-> answer]
        ELSE IF user.auth_provider # "local"
        THEN [db |-> dbv,
              resp |-> [req EXCEPT !.status = 400,
                           !.detail = "Password reset is not available for OAuth accounts"]]
        ELSE [db |-> [dbv EXCEPT
                         !.password_reset_tokens =
                             Append(delete_reset_tokens(@, id), reset_token),
                         !.generated = @ + 1],
              resp |-> [answer EXCEPT !.secret = reset_token.token]]

\* routes/users.py forgot_password, POST /api/users/forgot-password;
\* email_sent is what email_service.send_password_reset_email returns.
\* secret is the token string the email carries, not a part of the
\* response.
forgot_password(dbv, email, email_sent, t) ==
    LET req == [NoCall EXCEPT !.op = "forgot",
                   !.path = "/api/users/forgot-password", !.method = "POST",
                   !.t = t, !.email = email]
        id == UserByEmail(dbv, email)
        user == dbv.users[id]
        reset_token == [token |-> dbv.generated + 1, user_id |-> id,
                        created_at |-> time_ms(t),
                        expires_at |-> time_ms(t) + 60 * 60 * 1000,
                        used |-> FALSE]
        answer == [req EXCEPT !.status = 200,
                              !.detail = forgot_password_message]
    IN  IF id = Absent THEN [db |-> dbv, resp |-> answer]
        ELSE IF user.auth_provider # "local" THEN [db |-> dbv, resp |-> answer]
        ELSE [db |-> [dbv EXCEPT
                         !.password_reset_tokens =
                             Append(delete_reset_tokens(@, id), reset_token),
                         !.generated = @ + 1],
              resp |-> [answer EXCEPT !.secret = reset_token.token]]

\* routes/users.py reset_password, POST /api/users/reset-password
reset_password(dbv, token_string, new_password, t) ==
    LET req == [NoCall EXCEPT !.op = "reset",
                   !.path = "/api/users/reset-password", !.method = "POST",
                   !.t = t, !.secret = token_string,
                   !.password = new_password]
        i == RowByToken(dbv.password_reset_tokens, token_string)
        token == dbv.password_reset_tokens[i]
        user == dbv.users[token.user_id]
    IN  IF i = 0
        THEN [db |-> dbv,
              resp |-> [req EXCEPT !.status = 400,
                           !.detail = "Invalid or expired reset token"]]
        ELSE IF ~PasswordResetToken_is_valid(token, t)
        THEN [db |-> dbv,
              resp |-> [req EXCEPT !.status = 400,
                           !.detail = "Invalid or expired reset token"]]
        ELSE IF token.user_id \notin DOMAIN dbv.users
        THEN [db |-> dbv,
              resp |-> [req EXCEPT !.status = 404,
                                   !.detail = "User not found"]]
        ELSE IF user.auth_provider # "local"
        THEN [db |-> dbv,
              resp |-> [req EXCEPT !.status = 400,
                           !.detail = "Password reset is not available for OAuth accounts"]]
        ELSE [db |-> [dbv EXCEPT
                         !.users[token.user_id].hashed_password =
                             get_password_hash(new_password),
                         !.password_reset_tokens[i].used = TRUE],
              resp |-> [req EXCEPT !.status = 200,
                           !.detail = "Password has been reset successfully"]]

\* the code the user's authenticator shows for the secret when the request
\* is made
totp_now(secret) ==
    CASE secret = "JBSWY3DP" -> "492039"
      [] secret = "KRSXG5CT" -> "287082"
      [] OTHER -> "------"

\* utils/two_factor.py verify_2fa_code
verify_2fa_code(secret, code) == code = totp_now(secret)

\* utils/two_factor.py verify_backup_code: whether a stored code matches,
\* and the stored codes without the first one that does
verify_backup_code(stored_codes, code) ==
    LET hits == {i \in 1..Len(stored_codes) :
                    verify_password(code, stored_codes[i])}
        first == CHOOSE i \in hits : \A j \in hits : i <= j
    IN  IF hits = {} THEN [valid |-> FALSE, codes |-> stored_codes]
        ELSE [valid |-> TRUE,
              codes |-> SubSeq(stored_codes, 1, first - 1)
                        \o SubSeq(stored_codes, first + 1, Len(stored_codes))]

\* len(code) == 6 and code.isdigit()
IsTotpCode(code) == code \in {"492039", "287082", "000000"}

\* routes/auth_complete.py verify_2fa, POST /auth/2fa-verify
verify_2fa(dbv, temp_token, code, t) ==
    LET req == [NoCall EXCEPT !.op = "verify", !.path = "/auth/2fa-verify",
                   !.method = "POST", !.t = t, !.bearer = temp_token,
                   !.code = code]
        payload == jwt_decode(temp_token, t)
        user_id == payload.user_id
        user == dbv.users[user_id]
        backup == verify_backup_code(user.two_factor_backup_codes, code)
        code_valid == IF IsTotpCode(code)
                      THEN verify_2fa_code(user.two_factor_secret, code)
                      ELSE user.two_factor_backup_codes # <<>> /\ backup.valid
        spent == IF ~IsTotpCode(code) /\ code_valid
                 THEN [dbv EXCEPT !.users[user_id].two_factor_backup_codes =
                                      backup.codes]
                 ELSE dbv
        refresh_token == new_refresh_token(spent, user_id, t)
    IN  IF payload.raised # ""
        THEN [db |-> dbv,
              resp |-> [req EXCEPT !.status = 401,
                                   !.detail = "Invalid or expired token"]]
        ELSE IF ~payload.temp_2fa
        THEN [db |-> dbv,
              resp |-> [req EXCEPT !.status = 401,
                                   !.detail = "Invalid token"]]
        ELSE IF user_id \notin DOMAIN dbv.users
        THEN [db |-> dbv,
              resp |-> [req EXCEPT !.status = 400,
                           !.detail = "2FA not enabled for this user"]]
        ELSE IF ~user.two_factor_enabled
        THEN [db |-> dbv,
              resp |-> [req EXCEPT !.status = 400,
                           !.detail = "2FA not enabled for this user"]]
        ELSE IF ~code_valid
        THEN [db |-> dbv,
              resp |-> [req EXCEPT !.status = 401,
                                   !.detail = "Invalid 2FA code"]]
        ELSE [db |-> add_refresh_token(spent, refresh_token),
              resp |-> [req EXCEPT
                           !.status = 200,
                           !.access_token =
                               create_default_access_token(user_id,
                                                           user.email, t),
                           !.refresh_token = refresh_token.token]]

\* utils/auth.py get_current_user at time t: the id of the user the bearer
\* token stands for, or Absent for HTTP 401
get_current_user(dbv, bearer, t) ==
    LET payload == jwt_decode(bearer, t)
    IN  IF payload.raised # "" THEN Absent
        ELSE IF payload.user_id = Absent \/ payload.email = "" THEN Absent
        ELSE IF payload.user_id \notin DOMAIN dbv.users THEN Absent
        ELSE payload.user_id

\* routes/auth_complete.py get_current_user_info, GET /auth/me: an endpoint
\* that depends on get_current_user
get_current_user_info(dbv, bearer, t) ==
    LET req == [NoCall EXCEPT !.op = "me", !.path = "/auth/me",
                   !.method = "GET", !.t = t, !.bearer = bearer]
        current_user == get_current_user(dbv, bearer, t)
    IN  IF current_user = Absent
        THEN [req EXCEPT !.status = 401,
                         !.detail = "Could not validate credentials"]
        ELSE [req EXCEPT !.status = 200,
                         !.email = dbv.users[current_user].email]

\* utils/two_factor.py hash_backup_codes; the model keeps one code where
\* generate_backup_codes makes ten
hash_backup_codes(codes) ==
    [i \in 1..Len(codes) |-> get_password_hash(codes[i])]

\* mutant: setup is never refused
setup_2fa_refused_never(user) == FALSE

\* routes/two_factor.py:68
setup_2fa_refused(user) == user.two_factor_enabled

\* routes/two_factor.py setup_2fa, POST /api/2fa/setup; secret and
\* backup_codes are what generate_2fa_secret and generate_backup_codes draw
setup_2fa(dbv, bearer, secret, backup_codes, t) ==
    LET req == [NoCall EXCEPT !.op = "setup", !.path = "/api/2fa/setup",
                   !.method = "POST", !.t = t, !.bearer = bearer]
        current_user == get_current_user(dbv, bearer, t)
    IN  IF current_user = Absent
        THEN [db |-> dbv,
              resp |-> [req EXCEPT !.status = 401,
                           !.detail = "Could not validate credentials"]]
        ELSE IF setup_2fa_refused(dbv.users[current_user])
        THEN [db |-> dbv,
              resp |-> [req EXCEPT !.status = 400,
                           !.detail = "2FA is already enabled"]]
        ELSE [db |-> [dbv EXCEPT
                         !.users[current_user].two_factor_secret = secret,
                         !.users[current_user].two_factor_backup_codes =
                             hash_backup_codes(backup_codes)],
              resp |-> [req EXCEPT !.status = 200, !.code = secret]]

\* routes/two_factor.py verify_2fa_setup, POST /api/2fa/verify-setup
verify_2fa_setup(dbv, bearer, code, t) ==
    LET req == [NoCall EXCEPT !.op = "verify-setup",
                   !.path = "/api/2fa/verify-setup", !.method = "POST",
                   !.t = t, !.bearer = bearer, !.code = code]
        current_user == get_current_user(dbv, bearer, t)
        user == dbv.users[current_user]
    IN  IF current_user = Absent
        THEN [db |-> dbv,
              resp |-> [req EXCEPT !.status = 401,
                           !.detail = "Could not validate credentials"]]
        ELSE IF user.two_factor_secret = ""
        THEN [db |-> dbv,
              resp |-> [req EXCEPT !.status = 400,
                           !.detail = "2FA setup not initiated"]]
        ELSE IF user.two_factor_enabled
        THEN [db |-> dbv,
              resp |-> [req EXCEPT !.status = 400,
                           !.detail = "2FA is already enabled"]]
        ELSE IF ~verify_2fa_code(user.two_factor_secret, code)
        THEN [db |-> dbv,
              resp |-> [req EXCEPT !.status = 401,
                           !.detail = "Invalid verification code"]]
        ELSE [db |-> [dbv EXCEPT
                         !.users[current_user].two_factor_enabled = TRUE],
              resp |-> [req EXCEPT !.status = 200]]

\* routes/two_factor.py disable_2fa, POST /api/2fa/disable
disable_2fa(dbv, bearer, code, password, t) ==
    LET req == [NoCall EXCEPT !.op = "disable", !.path = "/api/2fa/disable",
                   !.method = "POST", !.t = t, !.bearer = bearer,
                   !.code = code, !.password = password]
        current_user == get_current_user(dbv, bearer, t)
        user == dbv.users[current_user]
        code_valid ==
            IF IsTotpCode(code)
            THEN verify_2fa_code(user.two_factor_secret, code)
            ELSE /\ user.two_factor_backup_codes # <<>>
                 /\ verify_backup_code(user.two_factor_backup_codes,
                                       code).valid
    IN  IF current_user = Absent
        THEN [db |-> dbv,
              resp |-> [req EXCEPT !.status = 401,
                           !.detail = "Could not validate credentials"]]
        ELSE IF ~user.two_factor_enabled
        THEN [db |-> dbv,
              resp |-> [req EXCEPT !.status = 400,
                           !.detail = "2FA is not enabled"]]
        ELSE IF user.auth_provider # "local"
        THEN [db |-> dbv,
              resp |-> [req EXCEPT !.status = 400,
                           !.detail = "Password verification not available for OAuth accounts"]]
        ELSE IF ~verify_password(password, user.hashed_password)
        THEN [db |-> dbv,
              resp |-> [req EXCEPT !.status = 401,
                           !.detail = "Invalid password"]]
        ELSE IF ~code_valid
        THEN [db |-> dbv,
              resp |-> [req EXCEPT !.status = 401,
                           !.detail = "Invalid 2FA code"]]
        ELSE [db |-> [dbv EXCEPT
                         !.users[current_user].two_factor_enabled = FALSE,
                         !.users[current_user].two_factor_secret = "",
                         !.users[current_user].two_factor_backup_codes = <<>>],
              resp |-> [req EXCEPT !.status = 200]]

\* routes/two_factor.py regenerate_backup_codes,
\* POST /api/2fa/regenerate-backup-codes
regenerate_backup_codes(dbv, bearer, code, backup_codes, t) ==
    LET req == [NoCall EXCEPT !.op = "regenerate",
                   !.path = "/api/2fa/regenerate-backup-codes",
                   !.method = "POST", !.t = t, !.bearer = bearer,
                   !.code = code]
        current_user == get_current_user(dbv, bearer, t)
        user == dbv.users[current_user]
    IN  IF current_user = Absent
        THEN [db |-> dbv,
              resp |-> [req EXCEPT !.status = 401,
                           !.detail = "Could not validate credentials"]]
        ELSE IF ~user.two_factor_enabled
        THEN [db |-> dbv,
              resp |-> [req EXCEPT !.status = 400,
                           !.detail = "2FA is not enabled"]]
        ELSE IF ~verify_2fa_code(user.two_factor_secret, code)
        THEN [db |-> dbv,
              resp |-> [req EXCEPT !.status = 401,
                           !.detail = "Invalid verification code"]]
        ELSE [db |-> [dbv EXCEPT
                         !.users[current_user].two_factor_backup_codes =
                             hash_backup_codes(backup_codes)],
              resp |-> [req EXCEPT !.status = 200]]

(***************************************************************************)
(* The runs.  A middleware instance keeps its own stores, so each is       *)
(* driven on its own: with requests from small sets, at instants that lie  *)
(* around its windows and lockouts.                                         *)
(***************************************************************************)
(***************************************************************************)
(* lifespan: the startup of a worker (main.py).  Every worker process      *)
(* opens /tmp/fingerflow_migration.lock for itself, so each has its own    *)
(* open file description and flock(LOCK_EX | LOCK_NB) on it succeeds       *)
(* exactly when no other worker holds the lock.  pc is the statement the   *)
(* worker is at:                                                            *)
(*   "flock"           about to call fcntl.flock in the loop               *)
(*   "sleep"           in time.sleep(5) after a BlockingIOError            *)
(*   "run_migrations"  inside run_migrations(), the lock held              *)
(*   "unlock"          at the finally clause                               *)
(*   "serving"         past the yield: the application takes requests      *)
(* How long run_migrations takes is not bounded by the code, so the steps  *)
(* of the workers interleave freely.                                       *)
(***************************************************************************)
\* main.py:44, for attempt in range(3)
migration_attempts == 3

Workers == {"worker-1", "worker-2", "worker-3"}

\* nobody holds the lock on the lock file
Unlocked == "unlocked"

\* the lock file is open (main.py:42), the loop has not begun
NotStarted ==
    [w \in Workers |->
        [pc |-> "flock", attempt |-> 0, migration_ran |-> FALSE]]

\* main.py:46, fcntl.flock(fd, LOCK_EX | LOCK_NB); the BlockingIOError
\* handler of lines 53-61 sleeps on the first two attempts and leaves the
\* loop on the last
Flock(w) ==
    /\ workers[w].pc = "flock"
    /\ IF flock_holder = Unlocked
       THEN /\ flock_holder' = w
            /\ workers' = [workers EXCEPT ![w].pc = "run_migrations"]
       ELSE /\ flock_holder' = flock_holder
            /\ workers' = [workers EXCEPT ![w].pc =
                               IF workers[w].attempt < migration_attempts - 1
                               THEN "sleep"
                               ELSE "unlock"]
    /\ UNCHANGED <<now, request_counts, attempts, lockouts, last, under_test,
                   inflight, journal, db, held>>

\* main.py:57, time.sleep(5) returns and the loop goes round
Sleep(w) ==
    /\ workers[w].pc = "sleep"
    /\ workers' = [workers EXCEPT ![w].pc = "flock",
                                  ![w].attempt = workers[w].attempt + 1]
    /\ UNCHANGED <<now, request_counts, attempts, lockouts, last, under_test,
                   inflight, journal, db, held, flock_holder>>

\* main.py:49-52, run_migrations() returns, or raises into the handler of
\* lines 62-67, which lets the startup go on
RunMigrations(w) ==
    /\ workers[w].pc = "run_migrations"
    /\ \E completed \in BOOLEAN :
           workers' = [workers EXCEPT ![w].pc = "unlock",
                                      ![w].migration_ran = completed]
    /\ UNCHANGED <<now, request_counts, attempts, lockouts, last, under_test,
                   inflight, journal, db, held, flock_holder>>

\* main.py:68-76, the finally clause unlocks and closes the file, then the
\* yield hands over to the application
Unlock(w) ==
    /\ workers[w].pc = "unlock"
    /\ flock_holder' = IF flock_holder = w THEN Unlocked ELSE flock_holder
    /\ workers' = [workers EXCEPT ![w].pc = "serving"]
    /\ UNCHANGED <<now, request_counts, attempts, lockouts, last, under_test,
                   inflight, journal, db, held>>

\* nothing has happened yet
NoJournal ==
    [admit |-> <<>>, failure |-> <<>>, locked |-> <<>>, started |-> <<>>]

Start(instance) ==
    /\ now = 0
    /\ request_counts = <<>>
    /\ attempts = <<>>
    /\ lockouts = <<>>
    /\ last = NoCall
    /\ under_test = instance
    /\ inflight = <<>>
    /\ journal = NoJournal
    /\ db = InitialDatabase
    /\ held = NothingHeld
    /\ flock_holder = Unlocked
    /\ workers = NotStarted

\* the requests the general limiter is driven with
GeneralPaths == {"/health", "/", "/api/sessions"}
GeneralMethods == {"GET"}

TickGeneral ==
    \E d \in GeneralSteps :
        /\ now < MaxTime
        /\ now' = now + d
        /\ last' = [NoCall EXCEPT !.op = "tick", !.t = now + d]
        /\ UNCHANGED <<request_counts, attempts, lockouts, under_test, db, held,
                     inflight, journal,
                       flock_holder, workers>>

RateLimitRequest ==
    \E ip \in Clients, path \in GeneralPaths, method \in GeneralMethods :
        /\ RateLimit_call(ip, path, method)
        /\ UNCHANGED <<now, attempts, lockouts, under_test, db, held,
                     inflight, journal,
                       flock_holder, workers>>

NextGeneral == TickGeneral \/ RateLimitRequest

SpecGeneral == Start("rate") /\ [][NextGeneral]_vars

\* the requests the auth limiter is driven with
AuthPaths == {"/auth/login", "/api/sessions"}
AuthMethods == {"POST"}

TickAuth ==
    \E t \in AuthInstants :
        /\ t > now
        /\ now' = t
        /\ last' = [NoCall EXCEPT !.op = "tick", !.t = t]
        /\ UNCHANGED <<request_counts, attempts, lockouts, under_test, db, held,
                     inflight, journal,
                       flock_holder, workers>>

AuthRequest ==
    \E ip \in AuthClients, path \in AuthPaths, method \in AuthMethods :
        /\ Auth_call(ip, path, method)
        /\ UNCHANGED <<now, request_counts, under_test, db, held,
                     inflight, journal,
                       flock_holder, workers>>

\* the business layer reports a failed credential check
AuthFailure ==
    \E ip \in AuthClients, path \in AuthPaths :
        /\ record_auth_failure(ip, path)
        /\ UNCHANGED <<now, request_counts, under_test, db, held,
                     inflight, journal,
                       flock_holder, workers>>

NextAuth == TickAuth \/ AuthRequest \/ AuthFailure

SpecAuth == Start("auth") /\ [][NextAuth]_vars

\* either limiter, each on its own
NextLimiters ==
    \/ under_test = "rate" /\ NextGeneral
    \/ under_test = "auth" /\ NextAuth

SpecLimiters ==
    (\E instance \in {"rate", "auth"} : Start(instance)) /\ [][NextLimiters]_vars

\* the auth limiter around the end of the window of attempts made at 0: a
\* request shortly before the end, one at the end, one after it
ThrottleInstants == {0, 870, 900, 960}

TickThrottle ==
    \E t \in ThrottleInstants :
        /\ t > now
        /\ now' = t
        /\ last' = [NoCall EXCEPT !.op = "tick", !.t = t]
        /\ UNCHANGED <<request_counts, attempts, lockouts, under_test,
                       inflight, journal, db, held,
                       flock_holder, workers>>

\* the business layer reports the failed credential check of the attempt
\* that was just admitted, in the second of its admission
PromptFailure ==
    \E ip \in AuthClients, path \in AuthPaths :
        /\ <<ip, path>> \in DOMAIN attempts
        /\ Len(attempts[<<ip, path>>]) > 0
        /\ attempts[<<ip, path>>][Len(attempts[<<ip, path>>])].ts = now
        /\ record_auth_failure(ip, path)
        /\ UNCHANGED <<now, request_counts, under_test, db, held,
                       inflight, journal,
                       flock_holder, workers>>

NextThrottle == TickThrottle \/ AuthRequest \/ PromptFailure

SpecThrottle == Start("throttle") /\ [][NextThrottle]_vars

\* the auth limiter over the life of a lockout: while it runs, when it has
\* run out, before and after the end of the window of the attempts, and a
\* window after a later lockout.  The journal notes, for a key that is
\* locked out, since when: in locked the first instant after the key's last
\* failure report, in started the first instant after the key's last
\* failure report or newly written lockout.
LockoutInstants == {0, 60, 870, 900, 960, 1770}

Locked(lk, key, t) == key \in DOMAIN lk /\ lk[key] > t

LockedSince(log, key, lk, t, reset) ==
    LET kept == IF reset THEN SelectSeq(log, LAMBDA e : e.key # key) ELSE log
    IN  IF Locked(lk, key, t) /\ ~ \E i \in 1..Len(kept) : kept[i].key = key
        THEN Append(kept, [key |-> key, ts |-> t])
        ELSE kept

LockoutWritten(key) ==
    /\ key \in DOMAIN lockouts'
    /\ key \in DOMAIN lockouts => lockouts'[key] # lockouts[key]

TickLockout ==
    \E t \in LockoutInstants :
        /\ t > now
        /\ now' = t
        /\ last' = [NoCall EXCEPT !.op = "tick", !.t = t]
        /\ UNCHANGED <<request_counts, attempts, lockouts, under_test,
                       inflight, journal, db, held,
                       flock_holder, workers>>

LockoutRequest ==
    \E ip \in AuthClients :
        LET key == <<ip, "/auth/login">>
        IN  /\ Auth_call(ip, "/auth/login", "POST")
            /\ journal' =
                   [journal EXCEPT
                       !.locked = LockedSince(@, key, lockouts', now, FALSE),
                       !.started = LockedSince(@, key, lockouts', now,
                                               LockoutWritten(key))]
            /\ UNCHANGED <<now, request_counts, under_test, db, held,
                           inflight,
                       flock_holder, workers>>

LockoutFailure ==
    \E ip \in AuthClients :
        LET key == <<ip, "/auth/login">>
        IN  /\ record_auth_failure(ip, "/auth/login")
            /\ journal' =
                   [journal EXCEPT
                       !.locked = LockedSince(@, key, lockouts', now, TRUE),
                       !.started = LockedSince(@, key, lockouts', now, TRUE)]
            /\ UNCHANGED <<now, request_counts, under_test, db, held,
                           inflight,
                       flock_holder, workers>>

NextLockout == TickLockout \/ LockoutRequest \/ LockoutFailure

SpecLockout == Start("lockout") /\ [][NextLockout]_vars

\* two keys of the auth limiter at a time: two identities on one endpoint,
\* or one identity on two endpoints; and the general limiter with its two
\* identities
KeyInstants == {0, 60, 900}

KeysUnderTest ==
    CASE under_test = "identities" ->
             {<<"10.0.0.1", "/auth/register">>, <<"10.0.0.2", "/auth/register">>}
      [] under_test = "endpoints" ->
             {<<"10.0.0.1", "/auth/login">>, <<"10.0.0.1", "/auth/register">>}
      [] OTHER -> {}

TickKeys ==
    \E t \in KeyInstants :
        /\ t > now
        /\ now' = t
        /\ last' = [NoCall EXCEPT !.op = "tick", !.t = t]
        /\ UNCHANGED <<request_counts, attempts, lockouts, under_test,
                       inflight, journal, db, held,
                       flock_holder, workers>>

KeyRequest ==
    \E key \in KeysUnderTest :
        /\ Auth_call(key[1], key[2], "POST")
        /\ UNCHANGED <<now, request_counts, under_test, db, held,
                       inflight, journal,
                       flock_holder, workers>>

KeyFailure ==
    \E key \in KeysUnderTest :
        /\ record_auth_failure(key[1], key[2])
        /\ UNCHANGED <<now, request_counts, under_test, db, held,
                       inflight, journal,
                       flock_holder, workers>>

NextKeys ==
    \/ under_test = "rate" /\ NextGeneral
    \/ under_test # "rate" /\ TickKeys
    \/ under_test # "rate" /\ KeyRequest
    \/ under_test # "rate" /\ KeyFailure

SpecKeys ==
    (\E instance \in {"rate", "identities", "endpoints"} : Start(instance))
    /\ [][NextKeys]_vars

\* the general limiter with a full store: as many identities as the
\* high-water mark allows have been admitted once, the last two of them at
\* the first tick and all the others at 0, before the clients arrive
FirstTick == CHOOSE d \in GeneralSteps : \A e \in GeneralSteps : d <= e
LongTick == CHOOSE d \in GeneralSteps : \A e \in GeneralSteps : d >= e

Crowd == {ToString(i) : i \in 1..cleanup_threshold}

LateCrowd == {ToString(cleanup_threshold - 1), ToString(cleanup_threshold)}

CrowdStore ==
    [ip \in Crowd |->
        <<[ts |-> IF ip \in LateCrowd THEN FirstTick ELSE 0, count |-> 1]>>]

StartCrowded ==
    /\ now = FirstTick
    /\ request_counts = CrowdStore
    /\ attempts = <<>>
    /\ lockouts = <<>>
    /\ last = NoCall
    /\ under_test = "rate"
    /\ inflight = <<>>
    /\ journal = NoJournal
    /\ db = InitialDatabase
    /\ held = NothingHeld
    /\ flock_holder = Unlocked
    /\ workers = NotStarted

TickCrowded ==
    /\ now + LongTick <= MaxTime
    /\ now' = now + LongTick
    /\ last' = [NoCall EXCEPT !.op = "tick", !.t = now + LongTick]
    /\ UNCHANGED <<request_counts, attempts, lockouts, under_test, db, held,
                   inflight, journal,
                       flock_holder, workers>>

CrowdedRequest ==
    \E ip \in Clients :
        /\ RateLimit_call(ip, "/api/sessions", "GET")
        /\ UNCHANGED <<now, attempts, lockouts, under_test, db, held,
                       inflight, journal,
                       flock_holder, workers>>

NextEviction == TickCrowded \/ CrowdedRequest

SpecEviction == StartCrowded /\ [][NextEviction]_vars

\* the limiters when their bookkeeping can fail: an exception that
\* _is_allowed can end with, such as MemoryError from growing a list
BookkeepingErrors == {"MemoryError"}
ReadMethods == {"GET"}

RateLimitFault ==
    \E ip \in Clients, path \in GeneralPaths, method \in ReadMethods,
       error \in BookkeepingErrors :
        LET done == RateLimit_handle_raising(request_counts, ip, path, method,
                                             now, error)
        IN  /\ request_counts' = done.counts
            /\ last' = done.resp
            /\ UNCHANGED <<now, attempts, lockouts, under_test, db, held,
                           inflight, journal,
                       flock_holder, workers>>

AuthFault ==
    \E ip \in AuthClients, path \in AuthPaths, method \in ReadMethods,
       error \in BookkeepingErrors :
        LET done == Auth_handle_raising(attempts, lockouts, ip, path, method,
                                        now, error)
        IN  /\ attempts' = done.attempts
            /\ lockouts' = done.lockouts
            /\ last' = done.resp
            /\ UNCHANGED <<now, request_counts, under_test, db, held,
                           inflight, journal,
                       flock_holder, workers>>

NextFaults ==
    \/ under_test = "rate" /\ NextGeneral
    \/ under_test = "rate" /\ RateLimitFault
    \/ under_test = "auth" /\ NextAuth
    \/ under_test = "auth" /\ AuthFault

SpecFaults ==
    (\E instance \in {"rate", "auth"} : Start(instance)) /\ [][NextFaults]_vars

\* the requests the CSRF interceptor is driven with; the last path is one
\* without the leading slash, the only kind the prefix rule does not exempt
CsrfPaths ==
    {"/health", "/", "/docs", "/auth/login", "/api/users/change-password",
     "/api/sessions", "/auth/2fa-verify", "api/sessions"}
CsrfMethods == {"GET", "POST", "PUT", "PATCH", "DELETE"}
Sessions == {"s1", "s2"}
\* around the expiry of a token issued at 0
CsrfInstants == {0, 3600, 3601}

\* the header values a client can send at time t: nothing, any token the
\* server has issued so far, a forgery, a string that is no token, bytes
\* that are no string, or a signed string that is no payload
PresentableTokens(t) ==
    {NoToken}
    \cup {generate_token(s, t0) :
            s \in Sessions \cup {NoSession}, t0 \in {i \in CsrfInstants : i <= t}}
    \cup {[kind |-> k, session_id |-> NoSession, issued_at |-> 0] :
            k \in {"forged", "garbage", "undecodable", "unloadable"}}

TickCsrf ==
    \E t \in CsrfInstants :
        /\ t > now
        /\ now' = t
        /\ last' = [NoCall EXCEPT !.op = "tick", !.t = t]
        /\ UNCHANGED <<request_counts, attempts, lockouts, under_test, db, held,
                     inflight, journal,
                       flock_holder, workers>>

CsrfRequestOver(methods, paths, tokens) ==
    \E method \in methods, path \in paths, token \in tokens :
        /\ CSRF_call(method, path, token)
        /\ UNCHANGED <<now, request_counts, attempts, lockouts, under_test, db, held,
                     inflight, journal,
                       flock_holder, workers>>

CsrfRequest == CsrfRequestOver(CsrfMethods, CsrfPaths, PresentableTokens(now))

NextCsrf == TickCsrf \/ CsrfRequest

SpecCsrf == Start("csrf") /\ [][NextCsrf]_vars

\* requests that are made in a session: the session is the client's, the
\* interceptor reads nothing of the request but its method, its path and
\* its X-CSRF-Token header
SessionPaths == {"/api/sessions", "api/sessions"}

SessionRequest ==
    \E session \in Sessions, method \in CsrfMethods, path \in SessionPaths,
       token \in PresentableTokens(now) :
        /\ last' = [CSRF_handle(method, path, token, now)
                        EXCEPT !.session_id = session]
        /\ UNCHANGED <<now, request_counts, attempts, lockouts, under_test,
                       db, held, inflight, journal,
                       flock_holder, workers>>

NextSessions == TickCsrf \/ SessionRequest

SpecSessions == Start("csrf") /\ [][NextSessions]_vars

\* the token service on its own: tokens are issued and validated, by
\* services that share the secret and differ in token_expiration
SessionArgs == Sessions \cup {NoSession, ""}
MaxAges == {1, 3600, 3601}

IssueToken ==
    \E session_id \in SessionArgs :
        /\ last' = [NoCall EXCEPT !.op = "issue", !.t = now,
                        !.session_id = session_id,
                        !.token = generate_token(session_id, now)]
        /\ UNCHANGED <<now, request_counts, attempts, lockouts, under_test, db, held,
                       inflight, journal,
                       flock_holder, workers>>

ValidateToken ==
    \E token \in PresentableTokens(now) \cup {last.token},
       session_id \in SessionArgs, max_age \in MaxAges :
        /\ last' = [NoCall EXCEPT !.op = "validate", !.t = now,
                        !.token = token, !.session_id = session_id,
                        !.max_age = max_age,
                        !.valid = validate_token_within(max_age, token,
                                                        session_id, now)]
        /\ UNCHANGED <<now, request_counts, attempts, lockouts, under_test, db, held,
                       inflight, journal,
                       flock_holder, workers>>

NextToken == TickCsrf \/ IssueToken \/ ValidateToken

SpecToken == Start("token") /\ [][NextToken]_vars

\* the HTTPS redirect on its own
Schemes == {"http", "https"}
ProtoHeaders == {"", "http", "https", Undecodable}
HostHeaders == {"fingerflow.example", Undecodable}
QueryStrings == {"", "page=2", Undecodable}

HttpsRequest ==
    \E enabled \in BOOLEAN, scheme \in Schemes, proto \in ProtoHeaders,
       host \in HostHeaders, query_string \in QueryStrings,
       path \in GeneralPaths :
        /\ last' = HTTPS_handle(enabled, scheme,
                                [x_forwarded_proto |-> proto, host |-> host],
                                path, query_string, now)
        /\ UNCHANGED <<now, request_counts, attempts, lockouts, under_test, db, held,
                       inflight, journal,
                       flock_holder, workers>>

\* every interceptor that can answer a request, each on its own
NextInterceptors ==
    \/ under_test = "rate" /\ NextGeneral
    \/ under_test = "auth" /\ NextAuth
    \/ under_test = "csrf" /\ NextCsrf
    \/ under_test = "https" /\ HttpsRequest

SpecInterceptors ==
    /\ \E instance \in {"rate", "auth", "csrf", "https"} : Start(instance)
    /\ [][NextInterceptors]_vars

\* Requests handled concurrently on the event loop.  A handler runs from
\* one await that suspends it to the next: the middleware's bookkeeping up
\* to `await self.app(...)` is one step, then the handler is suspended in
\* the application while others begin; a login handler whose credential
\* check fails reports it before it returns.
ConcurrentInstants ==
    IF under_test = "rate" THEN {0, 20, 60} ELSE {0, 900}

\* the admissions of key that the journal holds
Admissions(key) == SelectSeq(journal.admit, LAMBDA e : e.key = key)

\* the failure reports of key that the journal holds
Reports(key) == SelectSeq(journal.failure, LAMBDA e : e.key = key)

\* the journal with one more event of the kind
Noted(kind, key, t) ==
    [journal EXCEPT ![kind] = Append(@, [key |-> key, ts |-> t])]

Handler(op, ip, path, t) ==
    [op |-> op, ip |-> ip, path |-> path, ts |-> t, reported |-> FALSE]

TickConcurrent ==
    \E t \in ConcurrentInstants :
        /\ t > now
        /\ now' = t
        /\ last' = [NoCall EXCEPT !.op = "tick", !.t = t]
        /\ UNCHANGED <<request_counts, attempts, lockouts, under_test, db, held,
                       inflight, journal,
                       flock_holder, workers>>

\* a request arrives at the general limiter and runs to its first await
BeginRate ==
    \E ip \in AuthClients :
        /\ RateLimit_call(ip, "/api/sessions", "GET")
        /\ inflight' = IF last'.forwarded
                       THEN Append(inflight,
                                   Handler("rate", ip, "/api/sessions", now))
                       ELSE inflight
        /\ journal' = IF last'.forwarded
                      THEN Noted("admit", ip, now)
                      ELSE journal
        /\ Len(inflight') <= MaxInflight
        /\ UNCHANGED <<now, attempts, lockouts, under_test, db, held,
                       flock_holder, workers>>

\* a request arrives at the auth limiter and runs to its first await
BeginAuth ==
    \E ip \in AuthClients :
        /\ Auth_call(ip, "/auth/login", "POST")
        /\ inflight' = IF last'.forwarded
                       THEN Append(inflight,
                                   Handler("auth", ip, "/auth/login", now))
                       ELSE inflight
        /\ journal' = IF last'.forwarded
                      THEN Noted("admit", <<ip, "/auth/login">>, now)
                      ELSE journal
        /\ Len(inflight') <= MaxInflight
        /\ UNCHANGED <<now, request_counts, under_test, db, held,
                       flock_holder, workers>>

\* the credential check of a suspended login handler fails and the handler
\* reports it
ReportFailure ==
    \E i \in 1..Len(inflight) :
        /\ inflight[i].op = "auth" /\ ~inflight[i].reported
        /\ record_auth_failure(inflight[i].ip, inflight[i].path)
        /\ inflight' = [inflight EXCEPT ![i].reported = TRUE]
        /\ journal' = Noted("failure", <<inflight[i].ip, inflight[i].path>>,
                            now)
        /\ UNCHANGED <<now, request_counts, under_test, db, held,
                       flock_holder, workers>>

\* a suspended handler returns and its response is sent
EndHandler ==
    \E i \in 1..Len(inflight) :
        /\ inflight' = SubSeq(inflight, 1, i - 1)
                            \o SubSeq(inflight, i + 1, Len(inflight))
        /\ last' = [NoCall EXCEPT !.op = "end", !.ip = inflight[i].ip,
                        !.path = inflight[i].path, !.t = now]
        /\ UNCHANGED <<now, request_counts, attempts, lockouts, under_test, db, held,
                       journal,
                       flock_holder, workers>>

NextConcurrent ==
    \/ TickConcurrent
    \/ under_test = "rate" /\ BeginRate
    \/ under_test = "auth" /\ BeginAuth
    \/ under_test = "auth" /\ ReportFailure
    \/ EndHandler

SpecConcurrent ==
    /\ \E instance \in {"rate", "auth"} : Start(instance)
    /\ [][NextConcurrent]_vars

\* the assembled stack; the failures of the credential check are reported
\* to the limiter of the stack, as record_auth_failure's docstring asks
ChainInstants == {0, 20, 60}
ChainPaths == {"/auth/login", "/api/sessions", "/health"}
ChainMethods == {"GET", "POST"}

TickChain ==
    \E t \in ChainInstants :
        /\ t > now
        /\ now' = t
        /\ last' = [NoCall EXCEPT !.op = "tick", !.t = t]
        /\ UNCHANGED <<request_counts, attempts, lockouts, under_test, db, held,
                       inflight, journal,
                       flock_holder, workers>>

ChainRequest ==
    \E ip \in AuthClients, path \in ChainPaths, method \in ChainMethods :
        LET req == [ip |-> ip, path |-> path, method |-> method,
                    token |-> NoToken]
            done == Stack_run(middleware_stack,
                              Stack_stores(request_counts, attempts, lockouts),
                              <<>>, req, now)
        IN  /\ request_counts' = done.counts
            /\ attempts' = done.attempts
            /\ lockouts' = done.lockouts
            /\ last' = done.resp
            /\ UNCHANGED <<now, under_test, db, held, inflight, journal,
                       flock_holder, workers>>

ChainFailure ==
    \E ip \in AuthClients :
        /\ record_auth_failure(ip, "/auth/login")
        /\ UNCHANGED <<now, request_counts, under_test, db, held, inflight, journal,
                       flock_holder, workers>>

NextChain == TickChain \/ ChainRequest \/ ChainFailure

SpecChain == Start("chain") /\ [][NextChain]_vars

\* what the client gets: the handler's answer where the request reached it
App_response(resp, answer) ==
    IF resp.by = "app"
    THEN [resp EXCEPT !.status = answer.status, !.detail = answer.detail]
    ELSE resp

\* the application as main.py wires it: login requests go through the
\* stack to the login handler
AppLogin ==
    \E ip \in AuthClients, credentials_ok \in BOOLEAN :
        LET req == [ip |-> ip, path |-> "/auth/login", method |-> "POST",
                    token |-> NoToken]
            done == Stack_run(middleware_stack,
                              Stack_stores(request_counts, attempts, lockouts),
                              <<>>, req, now)
            answer == login(credentials_ok)
        IN  /\ request_counts' = done.counts
            /\ attempts' = done.attempts
            /\ lockouts' = done.lockouts
            /\ last' = App_response(done.resp, answer)
            /\ journal' = IF last'.by = "app" /\ last'.status = 401
                          THEN Noted("failure", <<ip, "/auth/login">>, now)
                          ELSE journal
            /\ UNCHANGED <<now, under_test, db, held, inflight,
                       flock_holder, workers>>

NextApp == TickChain \/ AppLogin

SpecApp == Start("app") /\ [][NextApp]_vars

\* the general limiter and the CSRF interceptor under the same probes
CsrfProbe == CsrfRequestOver(CsrfMethods, GeneralPaths, {NoToken})

NextEdge == TickGeneral \/ RateLimitRequest \/ CsrfProbe

SpecEdge == Start("edge") /\ [][NextEdge]_vars

(***************************************************************************)
(* The runs of the route handlers, each on the database, without the       *)
(* middleware in front of it.                                              *)
(***************************************************************************)
\* instants around the expiry of what was issued at 0: a temp token after
\* 5 minutes, a reset token after an hour, a refresh token after 7 days
AccountInstants ==
    IF under_test = "refresh" THEN {0, 604800, 604801}
    ELSE IF under_test = "reset" THEN {0, 3600, 3601}
    ELSE {0, 300, 301}

Emails ==
    {"local@example.com", "oauth@example.com", "totp@example.com",
     "nobody@example.com"}
Passwords == {"old-password", "new-password"}

\* the token strings a client can present: every one made so far, and one
\* that was never made
TokenStrings == 0..db.generated

TickAccounts ==
    \E t \in AccountInstants :
        /\ t > now
        /\ now' = t
        /\ last' = [NoCall EXCEPT !.op = "tick", !.t = t]
        /\ UNCHANGED <<request_counts, attempts, lockouts, under_test,
                       inflight, journal, db, held,
                       flock_holder, workers>>

\* the tokens of a response are in the client's hands
Handed(resp) ==
    [held EXCEPT !.jwts = @ \cup ({resp.access_token, resp.temp_token} \ {NoJwt})]

Login ==
    \E email \in Emails, password \in Passwords :
        LET done == auth_login(db, email, password, now)
        IN  /\ done.db.generated <= MaxTokens
            /\ db' = done.db
            /\ last' = done.resp
            /\ held' = Handed(done.resp)
            /\ UNCHANGED <<now, request_counts, attempts, lockouts,
                           under_test, inflight, journal,
                       flock_holder, workers>>

Refresh ==
    \E refresh_token \in TokenStrings :
        LET done == refresh_access_token(db, refresh_token, now)
        IN  /\ done.db.generated <= MaxTokens
            /\ db' = done.db
            /\ last' = done.resp
            /\ held' = [Handed(done.resp) EXCEPT
                           !.exchanged = IF done.resp.status = 200
                                         THEN Append(@, refresh_token) ELSE @]
            /\ UNCHANGED <<now, request_counts, attempts, lockouts,
                           under_test, inflight, journal,
                       flock_holder, workers>>

Revoke ==
    \E refresh_token \in TokenStrings :
        LET done == revoke_refresh_token(db, refresh_token, now)
        IN  /\ db' = done.db
            /\ last' = done.resp
            /\ UNCHANGED <<now, request_counts, attempts, lockouts,
                           under_test, inflight, journal, held,
                       flock_holder, workers>>

NextRefresh == TickAccounts \/ Login \/ Refresh \/ Revoke

SpecRefresh == Start("refresh") /\ [][NextRefresh]_vars

\* a password reset is requested; the email, when the account gets one,
\* puts the token string in the requester's hands
Forgot ==
    \E email \in Emails, email_sent \in BOOLEAN :
        LET done == forgot_password(db, email, email_sent, now)
        IN  /\ done.db.generated <= MaxTokens
            /\ db' = done.db
            /\ last' = done.resp
            /\ held' = [held EXCEPT
                           !.reset = IF done.resp.secret # Absent
                                     THEN Append(@, [token |-> done.resp.secret,
                                                     email |-> email])
                                     ELSE @]
            /\ UNCHANGED <<now, request_counts, attempts, lockouts,
                           under_test, inflight, journal,
                       flock_holder, workers>>

Reset ==
    \E token_string \in TokenStrings, new_password \in Passwords :
        LET done == reset_password(db, token_string, new_password, now)
        IN  /\ db' = done.db
            /\ last' = done.resp
            /\ UNCHANGED <<now, request_counts, attempts, lockouts,
                           under_test, inflight, journal, held,
                       flock_holder, workers>>

NextReset == TickAccounts \/ Forgot \/ Reset

SpecReset == Start("reset") /\ [][NextReset]_vars

\* the bearer tokens a client can present: every token a response has
\* carried, and one the server did not sign
BearerTokens == held.jwts \cup {NoJwt}

\* a code of the authenticator, a wrong one, a backup code, a wrong one
Codes == {"492039", "000000", "BACKUP01", "BACKUP99"}

Verify2fa ==
    \E temp_token \in BearerTokens, code \in Codes :
        LET done == verify_2fa(db, temp_token, code, now)
        IN  /\ done.db.generated <= MaxTokens
            /\ db' = done.db
            /\ last' = done.resp
            /\ held' = [Handed(done.resp) EXCEPT
                           !.verified = IF done.resp.status = 200
                                        THEN @ \cup {temp_token.user_id}
                                        ELSE @]
            /\ UNCHANGED <<now, request_counts, attempts, lockouts,
                           under_test, inflight, journal,
                       flock_holder, workers>>

GetMe ==
    \E bearer \in BearerTokens :
        /\ last' = get_current_user_info(db, bearer, now)
        /\ UNCHANGED <<now, request_counts, attempts, lockouts,
                       under_test, inflight, journal, db, held,
                       flock_holder, workers>>

NextTwoFactor == TickAccounts \/ Login \/ Verify2fa \/ GetMe

SpecTwoFactor == Start("2fa") /\ [][NextTwoFactor]_vars

\* the management of two-factor authentication: every user has signed in
\* and calls the four endpoints in any order, with an access token of
\* theirs or with a token the server did not sign
ManagementTokens ==
    {create_default_access_token(id, InitialUsers[id].email, 0) :
        id \in DOMAIN InitialUsers} \cup {NoJwt}

\* what pyotp.random_base32 and generate_backup_codes can draw
Secrets == {"JBSWY3DP", "KRSXG5CT"}
BackupCodes == {<<"BACKUP02">>}

\* codes of the authenticators, a wrong one, backup codes, a wrong one
ManagementCodes ==
    {"492039", "287082", "000000", "BACKUP01", "BACKUP02", "BACKUP99"}

Setup2fa ==
    \E bearer \in ManagementTokens, secret \in Secrets,
       backup_codes \in BackupCodes :
        LET done == setup_2fa(db, bearer, secret, backup_codes, now)
        IN  /\ db' = done.db
            /\ last' = done.resp
            /\ UNCHANGED <<now, request_counts, attempts, lockouts,
                           under_test, inflight, journal, held,
                       flock_holder, workers>>

VerifySetup ==
    \E bearer \in ManagementTokens, code \in ManagementCodes :
        LET done == verify_2fa_setup(db, bearer, code, now)
        IN  /\ db' = done.db
            /\ last' = done.resp
            /\ UNCHANGED <<now, request_counts, attempts, lockouts,
                           under_test, inflight, journal, held,
                       flock_holder, workers>>

Disable2fa ==
    \E bearer \in ManagementTokens, code \in ManagementCodes,
       password \in Passwords :
        LET done == disable_2fa(db, bearer, code, password, now)
        IN  /\ db' = done.db
            /\ last' = done.resp
            /\ UNCHANGED <<now, request_counts, attempts, lockouts,
                           under_test, inflight, journal, held,
                       flock_holder, workers>>

RegenerateBackupCodes ==
    \E bearer \in ManagementTokens, code \in ManagementCodes,
       backup_codes \in BackupCodes :
        LET done == regenerate_backup_codes(db, bearer, code, backup_codes,
                                            now)
        IN  /\ db' = done.db
            /\ last' = done.resp
            /\ UNCHANGED <<now, request_counts, attempts, lockouts,
                           under_test, inflight, journal, held,
                       flock_holder, workers>>

NextManagement ==
    Setup2fa \/ VerifySetup \/ Disable2fa \/ RegenerateBackupCodes

SpecManagement == Start("2fa-management") /\ [][NextManagement]_vars

\* the workers of one server start side by side
NextStartup ==
    \E w \in Workers : Flock(w) \/ Sleep(w) \/ RunMigrations(w) \/ Unlock(w)

SpecStartup == Start("startup") /\ [][NextStartup]_vars

(***************************************************************************)
(* Properties.  They are stated over the stores before and after a call    *)
(* and over the response, with their own reading of "inside the window".   *)
(***************************************************************************)
\* the records of recs with a timestamp in (t - w, t]
InWindow(recs, t, w) == SelectSeq(recs, LAMBDA r : r.ts > t - w /\ r.ts <= t)

Stamps(recs) == [i \in 1..Len(recs) |-> recs[i].ts]

IsPrefix(a, b) == Len(a) <= Len(b) /\ SubSeq(b, 1, Len(a)) = a

FailedIn(recs) == Cardinality({i \in 1..Len(recs) : recs[i].failed})

AuthKeys == AuthClients \X TrackedPaths

WindowOf(path) == rate_limits[path][2]
LimitOf(path) == rate_limits[path][1]

LastKey == <<last.ip, last.path>>

Probe(path) == path \in {"/health", "/"}

\* C1 (window correctness): in either limiter the count an admission
\* decision at time t uses is the number of the key's records with a
\* timestamp in (t - W, t], and no step drops a record that is still inside
\* the window, so a record counts exactly until it is W old.
C1_WindowCorrectness ==
    [][ /\ (last'.op = "rate" /\ ~Probe(last'.path)) =>
              last'.count =
                  Len(InWindow(Lookup(request_counts, last'.ip), last'.t,
                               window_seconds))
        /\ (last'.op = "auth" /\ last'.path \in TrackedPaths /\ ~last'.locked) =>
              last'.count =
                  Len(InWindow(Lookup(attempts, <<last'.ip, last'.path>>),
                               last'.t, WindowOf(last'.path)))
        /\ \A ip \in DOMAIN request_counts :
              IsPrefix(Stamps(InWindow(Lookup(request_counts, ip), now',
                                       window_seconds)),
                       Stamps(InWindow(Lookup(request_counts', ip), now',
                                       window_seconds)))
        /\ \A key \in DOMAIN attempts :
              IsPrefix(Stamps(InWindow(Lookup(attempts, key), now',
                                       WindowOf(key[2]))),
                       Stamps(InWindow(Lookup(attempts', key), now',
                                       WindowOf(key[2]))))
      ]_vars

\* C1 witness: a decision that counted one older record still inside the
\* window, after a full window has passed since the start.
C1_Witness ==
    /\ last.op = "rate" /\ last.forwarded /\ last.count = 1
    /\ last.t > window_seconds
    /\ request_counts[last.ip][1].ts < last.t

\* C2 (monotone throttling, general limiter): a request of an identity that
\* has max_requests records inside the window is answered 429 and not
\* forwarded; a request that comes window_seconds or more after the
\* identity's last admitted one (or is its first) is forwarded.
C2_MonotoneThrottling ==
    [][ (last'.op = "rate" /\ ~Probe(last'.path)) =>
            LET recs == Lookup(request_counts, last'.ip)
            IN  /\ Len(InWindow(recs, last'.t, window_seconds)) >= max_requests
                      => last'.status = 429 /\ ~last'.forwarded
                /\ (recs = <<>> \/ recs[Len(recs)].ts + window_seconds <= last'.t)
                      => last'.forwarded /\ last'.status = 0
      ]_vars

\* C2 witness: a request rejected some time after the identity filled its
\* quota, the quota still inside the window.
C2_Witness ==
    /\ last.op = "rate" /\ last.status = 429
    /\ Len(request_counts[last.ip]) = max_requests
    /\ request_counts[last.ip][max_requests].ts < last.t

ExpectedLockout(f) ==
    CASE f = 3 -> 60
      [] f = 4 -> 120
      [] f = 5 -> 240
      [] f = 6 -> 480
      [] OTHER -> 900

\* C3 (lockout escalation): whenever a step writes a lockout entry, the key
\* has f >= 3 failed records counted (in the endpoint's window on the
\* admission path, in the last 900 s in record_auth_failure) and
\* lockout_until = now + min(900, 60 * 2^(f-3)): 60, 120, 240 for 3, 4, 5
\* and 900 from 7 on.
C3_LockoutEscalation ==
    [][ /\ \A f \in 3..FailureProbe :
              Auth_lockout_duration(f) = ExpectedLockout(f)
        /\ \A key \in AuthKeys :
              (/\ key \in DOMAIN lockouts'
               /\ (key \notin DOMAIN lockouts \/ lockouts'[key] # lockouts[key]))
              => LET w == IF last'.op = "fail" THEN 900 ELSE WindowOf(key[2])
                     f == FailedIn(InWindow(attempts'[key], now', w))
                 IN  /\ f >= 3
                     /\ last'.failed_count = f
                     /\ lockouts'[key] = now' + ExpectedLockout(f)
      ]_vars

\* C3 witness: a lockout entered with five failures, 240 s long.
C3_Witness ==
    /\ last.failed_count = 5
    /\ LastKey \in DOMAIN lockouts
    /\ lockouts[LastKey] = last.t + 240

\* C4 (lockout precedence): a request to a tracked endpoint whose key is
\* locked (now < lockout_until) is answered 429, is not forwarded, and
\* leaves the attempt lists and the lockouts as they were.
C4_LockoutPrecedence ==
    [][ \A key \in AuthKeys :
            (/\ last'.op = "auth" /\ <<last'.ip, last'.path>> = key
             /\ key \in DOMAIN lockouts /\ now < lockouts[key])
            => /\ last'.status = 429 /\ ~last'.forwarded
               /\ attempts' = attempts
               /\ lockouts' = lockouts
      ]_vars

\* C4 witness: a request rejected as locked while its window has room.
C4_Witness ==
    /\ last.op = "auth" /\ last.locked /\ last.status = 429
    /\ Len(attempts[LastKey]) < LimitOf(last.path)
    /\ last.t < lockouts[LastKey]

\* C5 (unlock timing): a request is treated as locked exactly when its key
\* has a lockout entry with now < lockout_until; at the first request with
\* now >= lockout_until the entry is deleted and the request is judged by
\* the window alone.
C5_UnlockTiming ==
    [][ \A key \in AuthKeys :
            (last'.op = "auth" /\ <<last'.ip, last'.path>> = key) =>
                /\ last'.locked <=>
                      (key \in DOMAIN lockouts /\ last'.t < lockouts[key])
                /\ (key \in DOMAIN lockouts /\ last'.t >= lockouts[key]) =>
                      /\ last'.unlocked
                      /\ key \in DOMAIN lockouts' => last'.failed_count # Absent
                      /\ last'.forwarded <=>
                            Len(InWindow(Lookup(attempts, key), last'.t,
                                         WindowOf(key[2]))) < LimitOf(key[2])
      ]_vars

\* C5 witness: a request that found its lockout expired and was admitted.
C5_Witness ==
    /\ last.op = "auth" /\ last.unlocked /\ last.forwarded
    /\ LastKey \notin DOMAIN lockouts

LoginKeys == AuthClients \X {"/auth/login"}

ThreeFailures(recs) == Len(recs) = 3 /\ \A i \in 1..3 : recs[i].failed

\* C6 (auth lockout scenario, login: 5 attempts per 900 s): the failure
\* report that makes three failed attempts locks the key for 60 s; a request
\* inside those 60 s is answered 429 and not forwarded; the first request at
\* or after lockout_until finds no lock and is admitted.
C6_LockoutScenario ==
    [][ \A key \in LoginKeys :
            LET before == Lookup(attempts, key)
                after == Lookup(attempts', key)
                on_key == <<last'.ip, last'.path>> = key
            IN  /\ (/\ last'.op = "fail" /\ on_key
                    /\ ThreeFailures(InWindow(after, last'.t, 900))
                    /\ Len(after) = 3 /\ ~before[3].failed)
                   => /\ key \in DOMAIN lockouts'
                      /\ lockouts'[key] = last'.t + 60
                /\ (/\ last'.op = "auth" /\ on_key /\ ThreeFailures(before)
                    /\ key \in DOMAIN lockouts /\ last'.t < lockouts[key])
                   => last'.status = 429 /\ ~last'.forwarded
                /\ (/\ last'.op = "auth" /\ on_key /\ ThreeFailures(before)
                    /\ key \in DOMAIN lockouts /\ last'.t >= lockouts[key])
                   => /\ last'.forwarded /\ last'.status = 0
                      /\ key \notin DOMAIN lockouts'
                      /\ Len(after) <= 4
                      /\ after[Len(after)] = [ts |-> last'.t, failed |-> FALSE]
      ]_vars

\* C6 witness: three failed attempts, a 60 s lockout, and a fourth attempt
\* admitted at the instant the lockout ends.
C6_Witness ==
    /\ last.op = "auth" /\ last.path = "/auth/login"
    /\ last.unlocked /\ last.forwarded
    /\ Len(attempts[LastKey]) = 4
    /\ ThreeFailures(SubSeq(attempts[LastKey], 1, 3))
    /\ attempts[LastKey][4] = [ts |-> last.t, failed |-> FALSE]
    /\ last.t = attempts[LastKey][3].ts + 60

\* C7 (lockout requires failures): a key none of whose records is flagged
\* failed has no lockout entry, and a request of such a key is never
\* answered as locked: its only 429 is the window's.
C7_LockoutRequiresFailures ==
    \A key \in AuthKeys :
        FailedIn(Lookup(attempts, key)) = 0 =>
            /\ key \notin DOMAIN lockouts
            /\ (last.op = "auth" /\ LastKey = key) =>
                  /\ ~last.locked
                  /\ last.status = 429 =>
                        /\ last.retry_after = WindowOf(key[2])
                        /\ last.limit = Absent

\* C7 witness: a key with a full window and no failure, throttled and not
\* locked.
C7_Witness ==
    /\ last.op = "auth" /\ last.status = 429 /\ ~last.locked
    /\ Len(attempts[LastKey]) = LimitOf(last.path)
    /\ FailedIn(attempts[LastKey]) = 0
    /\ LastKey \notin DOMAIN lockouts

\* C8 (header accuracy, general limiter): an admitted request carries
\* X-RateLimit-Limit = max_requests and X-RateLimit-Remaining = max_requests
\* minus the identity's records inside the window, the new one included, so
\* successive requests from an empty window carry max_requests - 1, ..., 0;
\* the next one inside the window is answered 429 with Retry-After: 60.
C8_HeaderAccuracy ==
    [][ (last'.op = "rate" /\ ~Probe(last'.path)) =>
            LET before == Len(InWindow(Lookup(request_counts, last'.ip),
                                       last'.t, window_seconds))
                after == Len(InWindow(Lookup(request_counts', last'.ip),
                                      last'.t, window_seconds))
            IN  IF before < max_requests
                THEN /\ last'.forwarded
                     /\ after = before + 1
                     /\ last'.limit = max_requests
                     /\ last'.remaining = max_requests - after
                     /\ last'.retry_after = Absent
                ELSE /\ last'.status = 429
                     /\ last'.retry_after = 60
                     /\ last'.remaining = Absent
      ]_vars

\* C8 witness: the quota used up within ten seconds and a later request in
\* the same window answered 429 with Retry-After: 60.
C8_Witness ==
    /\ last.op = "rate" /\ last.status = 429 /\ last.retry_after = 60
    /\ Len(request_counts[last.ip]) = max_requests
    /\ request_counts[last.ip][max_requests].ts
           - request_counts[last.ip][1].ts <= 10
    /\ request_counts[last.ip][max_requests].ts < last.t

\* C9 (exemption): a GET to /health or / is forwarded by the general limiter
\* and by the CSRF interceptor in every state, and leaves the general
\* limiter's store unchanged.
C9_Exemption ==
    [][ (/\ last'.op \in {"rate", "csrf"}
         /\ last'.method = "GET" /\ last'.path \in {"/health", "/"})
        => /\ last'.forwarded /\ last'.status = 0
           /\ request_counts' = request_counts
      ]_vars

\* C9 witness: a health probe forwarded by the general limiter for an
\* identity whose quota is used up.
C9_Witness ==
    /\ last.op = "rate" /\ last.path = "/health" /\ last.forwarded
    /\ last.ip \in DOMAIN request_counts
    /\ Len(InWindow(request_counts[last.ip], last.t, window_seconds))
           = max_requests

\* C10 (CSRF enforcement): a POST, PUT, PATCH or DELETE to a path outside
\* the exempt endpoints is forwarded only with a valid token; without the
\* header it is answered 403 "CSRF token missing or invalid", with an
\* invalid or expired token 403 "CSRF token invalid or expired".
C10_CsrfEnforced ==
    (/\ last.op = "csrf"
     /\ last.method \in {"POST", "PUT", "PATCH", "DELETE"}
     /\ last.path \notin exempt_paths)
    => LET valid == /\ last.token.kind = "signed"
                    /\ last.t - last.token.issued_at <= token_expiration
       IN  /\ last.forwarded => valid
           /\ last.token.kind = "none" =>
                 /\ last.status = 403
                 /\ last.detail = "CSRF token missing or invalid"
           /\ (last.token.kind # "none" /\ ~valid) =>
                 /\ last.status = 403
                 /\ last.detail = "CSRF token invalid or expired"

TokenAge == last.t - last.token.issued_at

NoSessionArg(session_id) == session_id \in {NoSession, ""}

\* C11 (CSRF round-trip): a token that generate_token has just issued for a
\* session id s (none included) is accepted by validate_token with the same
\* s at the instant of issuance, whatever max_age > 0 the service has.
C11_RoundTrip ==
    [][ (/\ last.op = "issue" /\ last'.op = "validate"
         /\ last'.token = last.token
         /\ last'.session_id = last.session_id
         /\ last'.t = last.t /\ last'.max_age > 0)
        => last'.valid
      ]_vars

\* C11 witness: a token bound to a session, validated with that session in
\* the second it was issued by a service with max_age = 1.
C11_Witness ==
    /\ last.op = "validate" /\ last.valid
    /\ last.token.kind = "signed" /\ last.token.issued_at = last.t
    /\ last.session_id = "s1" /\ last.token.session_id = "s1"
    /\ last.max_age = 1 /\ last.t > 0

\* C12 as claimed (CSRF expiry): validate_token is false for a signed token
\* at every t with t - issued_at >= max_age.
C12_ExpiredFromMaxAge ==
    (last.op = "validate" /\ last.token.kind = "signed"
     /\ TokenAge >= last.max_age)
    => ~last.valid

\* C12 as amended: validate_token is false for a signed token at every t
\* with t - issued_at > max_age (in whole seconds), and it ends with a
\* boolean, never with an exception, whatever the header holds.
C12_ExpiredAfterMaxAge ==
    last.op = "validate" =>
        /\ last.valid \in BOOLEAN /\ last.raised = ""
        /\ (last.token.kind = "signed" /\ TokenAge > last.max_age)
              => ~last.valid
        /\ last.token.kind # "signed" => ~last.valid

\* C12 witness: a signed token turned down one second after max_age, by a
\* call whose session check would have passed.
C12_Witness ==
    /\ last.op = "validate" /\ ~last.valid
    /\ last.token.kind = "signed"
    /\ last.token.session_id = NoSession
    /\ last.max_age = 3600 /\ TokenAge = 3601

\* C13 (CSRF session binding): validate_token(token, s) is false when s is
\* a session id and the token embeds another one; a signed, unexpired token
\* issued without a session id is accepted with every s; a signed,
\* unexpired token is accepted when no s is given, whatever it embeds.
C13_SessionBinding ==
    (last.op = "validate" /\ last.token.kind = "signed") =>
        /\ (/\ ~NoSessionArg(last.session_id)
             /\ last.token.session_id # NoSession
             /\ last.token.session_id # last.session_id)
           => ~last.valid
        /\ (last.token.session_id = NoSession /\ TokenAge <= last.max_age)
           => last.valid
        /\ (NoSessionArg(last.session_id) /\ TokenAge <= last.max_age)
           => last.valid

\* C13 witness: a fresh token of session s1 turned down for session s2.
C13_Witness ==
    /\ last.op = "validate" /\ ~last.valid
    /\ last.token.kind = "signed" /\ TokenAge = 0
    /\ last.token.session_id = "s1" /\ last.session_id = "s2"

\* the order of the interceptors as documented, outermost first
DocumentedOrder == <<"https", "headers", "csrf", "auth", "rate", "app">>

PlaceIn(order, stage) == CHOOSE i \in 1..Len(order) : order[i] = stage

\* the stages of ran that the documented order names
Documented(ran) ==
    SelectSeq(ran, LAMBDA stage : \E i \in 1..Len(DocumentedOrder) :
                                      DocumentedOrder[i] = stage)

\* C14 (chain order) as claimed: a request goes through the interceptors
\* in the order HTTPS redirect, security headers, CSRF, auth limiter, general
\* limiter, application, and a stage that answers keeps every later stage
\* from running: a 429 of the auth limiter leaves the general limiter's
\* store untouched, a 403 of CSRF leaves both limiters' stores untouched.
C14_ChainOrder ==
    [][ last'.op = "chain" =>
            LET ran == Documented(last'.ran)
            IN  /\ \A i, j \in 1..Len(ran) :
                      i < j => PlaceIn(DocumentedOrder, ran[i])
                                  < PlaceIn(DocumentedOrder, ran[j])
                /\ last'.by = "auth" => request_counts' = request_counts
                /\ last'.by = "csrf" =>
                      /\ request_counts' = request_counts
                      /\ attempts' = attempts /\ lockouts' = lockouts
      ]_vars

\* C15 as claimed: a request the auth limiter answers as locked adds no
\* record for its identity to the general limiter's window.
C15_LockedNotCharged ==
    [][ (last'.op = "chain" /\ last'.by = "auth" /\ last'.locked) =>
            InWindow(Lookup(request_counts', last'.ip), last'.t, window_seconds)
                = InWindow(Lookup(request_counts, last'.ip), last'.t,
                           window_seconds)
      ]_vars

Interceptors == {"https", "csrf", "auth", "rate"}

\* C16 as claimed: every interceptor, for every HTTP request, either calls
\* the next stage or writes a terminal response (301, 403 or 429); never
\* both, never neither.
C16_ForwardOrAnswer ==
    last.op \in Interceptors =>
        /\ last.forwarded \/ last.status \in {301, 403, 429}
        /\ ~(last.forwarded /\ last.status # 0)

\* C17 (429 headers): every 429 of either limiter carries Retry-After; a
\* rejection by an active lockout carries also X-RateLimit-Limit: 0 and
\* X-RateLimit-Remaining: 0, and its Retry-After is the number of seconds
\* left until lockout_until, which is never negative.
C17_RetryAfter ==
    (last.op \in {"rate", "auth"} /\ last.status = 429) =>
        /\ last.retry_after # Absent
        /\ last.retry_after >= 0
        /\ last.locked =>
              /\ last.limit = 0 /\ last.remaining = 0
              /\ LastKey \in DOMAIN lockouts
              /\ last.retry_after = lockouts[LastKey] - last.t
        /\ ~last.locked =>
              last.retry_after = IF last.op = "rate" THEN window_seconds
                                 ELSE WindowOf(last.path)

\* C17 witness: a request rejected two minutes into a lockout of four, with
\* Retry-After: 120.
C17_Witness ==
    /\ last.op = "auth" /\ last.status = 429 /\ last.locked
    /\ last.limit = 0 /\ last.remaining = 0
    /\ last.t = 120 /\ lockouts[LastKey] = 240
    /\ last.retry_after = 120

\* the admissions of key made in the window of length w that ends at t
AdmittedIn(key, t, w) ==
    Len(SelectSeq(Admissions(key), LAMBDA e : e.ts > t - w /\ e.ts <= t))

\* no window holds more admissions of a key than its limit
AdmittedWithinLimit ==
    \A i \in 1..Len(journal.admit) :
        LET key == journal.admit[i].key
            t == journal.admit[i].ts
        IN  IF key \in AuthClients
            THEN AdmittedIn(key, t, window_seconds) <= max_requests
            ELSE AdmittedIn(key, t, WindowOf(key[2])) <= LimitOf(key[2])

\* C18 (concurrent admission): with handlers suspended in the application
\* while others arrive, every admitted request has appended exactly one
\* record to its key's list, on top of the records still inside the window,
\* and no window of a key holds more admissions than max_requests (general
\* limiter) or max_attempts (auth limiter).
C18_NoLostAdmission ==
    [][ /\ (last'.op = "rate" /\ last'.forwarded) =>
              Lookup(request_counts', last'.ip) =
                  Append(InWindow(Lookup(request_counts, last'.ip), last'.t,
                                  window_seconds),
                         [ts |-> last'.t, count |-> 1])
        /\ (last'.op = "auth" /\ last'.forwarded) =>
              Lookup(attempts', <<last'.ip, last'.path>>) =
                  Append(InWindow(Lookup(attempts, <<last'.ip, last'.path>>),
                                  last'.t, WindowOf(last'.path)),
                         [ts |-> last'.t, failed |-> FALSE])
        /\ AdmittedWithinLimit'
      ]_vars

\* C18 witness: a request turned down at a full window while two admitted
\* requests of the same identity are suspended in the application.
C18_Witness ==
    /\ last.op = "rate" /\ last.status = 429
    /\ Len(inflight) >= 2
    /\ \A i \in 1..Len(inflight) :
          inflight[i].ip = last.ip /\ inflight[i].ts = last.t
    /\ Len(request_counts[last.ip]) = max_requests

\* C19 as claimed: as long as no record of the key has been pruned, the
\* number of its records flagged failed is the number of failures reported
\* by the handlers of its admitted requests.
C19_NoLostFailure ==
    \A key \in DOMAIN attempts :
        Len(attempts[key]) = Len(Admissions(key)) =>
            FailedIn(attempts[key]) = Len(Reports(key))

\* the key has three or more failed logins in the last 15 minutes, and the
\* lockout that the third entails (60 s at least) would still be running
RecentlyFailedThrice(key, t) ==
    LET failed == SelectSeq(Reports(key), LAMBDA e : e.ts > t - failure_window)
    IN  /\ Len(failed) >= lockout_threshold
        /\ t < failed[Len(failed)].ts + lockout_base

\* C20 as claimed: in the running application, a login request of an
\* identity with three failed logins in the last 15 minutes, made while the
\* lockout these entail is running and let through by the general limiter,
\* is answered 429 as locked.
C20_FailedLoginsLock ==
    [][ (/\ last'.op = "chain" /\ last'.path = "/auth/login"
         /\ last'.by # "rate"
         /\ RecentlyFailedThrice(<<last'.ip, last'.path>>, last'.t))
        => last'.locked /\ last'.status = 429
      ]_vars

\* the interceptor handed the token of the last request to validate_token
CsrfValidated ==
    /\ last.op = "csrf"
    /\ CSRF_state_changing(last.method)
    /\ ~CSRF_exempt(last.path)
    /\ last.token.kind \notin {"none", "undecodable"}

\* C21 (CSRF fails closed): when the validation of the token of a
\* state-changing request ends in an exception other than SignatureExpired
\* and BadSignature, validate_token returns false, the request is answered
\* 403 and not forwarded, and no exception leaves the interceptor.
C21_FailClosed ==
    (/\ CsrfValidated
     /\ serializer_loads(last.token, token_expiration, last.t).raised
            \notin {"", "SignatureExpired", "BadSignature"})
    => /\ ~validate_token(last.token, NoSession, last.t).returned
       /\ last.status = 403
       /\ ~last.forwarded
       /\ last.raised = ""

C21_Witness ==
    /\ CsrfValidated
    /\ last.token.kind = "unloadable"
    /\ serializer_loads(last.token, token_expiration, last.t).raised
           = "BadPayload"
    /\ last.status = 403

\* C22 (limiters fail open on reads): when the bookkeeping of the general
\* or the auth limiter hits an unexpected error while a GET request is
\* handled, the request is forwarded and no exception leaves the
\* interceptor.
C22_FailOpenOnReads ==
    (/\ last.op \in {"rate", "auth"}
     /\ last.method = "GET"
     /\ last.fault # "")
    => /\ last.forwarded
       /\ last.raised = ""

\* what the client sees of what an interceptor did with a request: the
\* response it wrote (status, body, headers) or that the request went on
Observable(resp) ==
    [forwarded |-> resp.forwarded, status |-> resp.status,
     detail |-> resp.detail, retry_after |-> resp.retry_after,
     limit |-> resp.limit, remaining |-> resp.remaining,
     reset |-> resp.reset, raised |-> resp.raised]

\* validate_token returned false for the token
CsrfRejected(token, t) ==
    /\ token.kind \notin {"none", "undecodable"}
    /\ validate_token(token, NoSession, t).raised = ""
    /\ ~validate_token(token, NoSession, t).returned

\* C23 (CSRF failure reasons are not observable): two requests that differ
\* only in a non-empty X-CSRF-Token value, both with a token that validation
\* rejects (expired, bad signature, malformed or internal error), get
\* responses that are identical in status, headers and body.
C23_ReasonsNotObservable ==
    (CsrfValidated /\ CsrfRejected(last.token, last.t))
    => \A other \in PresentableTokens(last.t) :
           CsrfRejected(other, last.t)
           => Observable(CSRF_handle(last.method, last.path, other, last.t))
                  = Observable(last)

C23_Witness ==
    /\ CsrfValidated
    /\ last.status = 403
    /\ serializer_loads(last.token, token_expiration, last.t).raised
           = "SignatureExpired"
    /\ \E other \in PresentableTokens(last.t) :
           /\ CsrfRejected(other, last.t)
           /\ serializer_loads(other, token_expiration, last.t).raised
                  = "BadSignature"

\* no element occurs twice in the sequence
NoRepeats(seq) ==
    \A i, j \in 1..Len(seq) : seq[i] = seq[j] => i = j

\* the refresh token with this string exists, is not revoked and has not
\* expired at time t
Exchangeable(dbv, value, t) ==
    \E i \in 1..Len(dbv.refresh_tokens) :
        /\ dbv.refresh_tokens[i].token = value
        /\ ~dbv.refresh_tokens[i].revoked
        /\ t * 1000 <= dbv.refresh_tokens[i].expires_at

\* C24 (refresh-token rotation): a successful POST /auth/refresh marks the
\* presented token revoked and creates exactly one new token, not revoked,
\* for the same user; a revoked, expired or unknown token is answered 401;
\* so over any sequence of refresh and revoke calls no refresh token is
\* exchanged twice.
C24_RefreshRotation ==
    [][last'.op = "refresh" =>
          LET old == db.refresh_tokens
              new == db'.refresh_tokens
              i == RowByToken(old, last'.secret)
          IN  /\ last'.status = 200 =>
                    /\ Exchangeable(db, last'.secret, now)
                    /\ Len(new) = Len(old) + 1
                    /\ \A j \in 1..Len(old) :
                           new[j] = IF j = i
                                    THEN [old[j] EXCEPT !.revoked = TRUE]
                                    ELSE old[j]
                    /\ ~new[Len(new)].revoked
                    /\ new[Len(new)].user_id = old[i].user_id
                    /\ new[Len(new)].token = last'.refresh_token
                    /\ \A j \in 1..Len(old) :
                           old[j].token # new[Len(new)].token
              /\ ~Exchangeable(db, last'.secret, now) =>
                    /\ last'.status = 401
                    /\ db' = db
              /\ NoRepeats(held'.exchanged)]_vars

C24_Witness ==
    /\ last.op = "refresh"
    /\ last.status = 401
    /\ \E i \in 1..Len(held.exchanged) : held.exchanged[i] = last.secret
    /\ \E i \in 1..Len(db.refresh_tokens) :
           /\ db.refresh_tokens[i].token = last.secret
           /\ db.refresh_tokens[i].revoked
           /\ last.t * 1000 <= db.refresh_tokens[i].expires_at

\* the password-reset token with this string exists, is unused and has not
\* expired at time t
Redeemable(dbv, value, t) ==
    \E i \in 1..Len(dbv.password_reset_tokens) :
        /\ dbv.password_reset_tokens[i].token = value
        /\ ~dbv.password_reset_tokens[i].used
        /\ t * 1000 <= dbv.password_reset_tokens[i].expires_at

\* C25 (password-reset tokens are single-use): a successful POST
\* /api/users/reset-password changes the user's password and marks the token
\* used; an attempt with a used, expired or unknown token is answered 400
\* and leaves the user's password and every token unchanged.
C25_SingleUseReset ==
    [][last'.op = "reset" =>
          LET old == db.password_reset_tokens
              i == RowByToken(old, last'.secret)
          IN  /\ last'.status = 200 =>
                    /\ Redeemable(db, last'.secret, now)
                    /\ verify_password(
                           last'.password,
                           db'.users[old[i].user_id].hashed_password)
                    /\ db'.password_reset_tokens[i].used
              /\ ~Redeemable(db, last'.secret, now) =>
                    /\ last'.status = 400
                    /\ db' = db]_vars

C25_Witness ==
    /\ last.op = "reset"
    /\ last.status = 400
    /\ \E i \in 1..Len(db.password_reset_tokens) :
           LET row == db.password_reset_tokens[i]
           IN  /\ row.token = last.secret
               /\ row.used
               /\ last.t * 1000 <= row.expires_at
               /\ verify_password("new-password",
                                  db.users[row.user_id].hashed_password)
               /\ last.password = "old-password"

\* the token strings the forgot-password calls for the email have sent out,
\* in the order of the calls
IssuedFor(email) == SelectSeq(held.reset, LAMBDA e : e.email = email)

\* the password-reset tokens the database holds for the user
ResetTokensOf(id) ==
    SelectSeq(db.password_reset_tokens, LAMBDA row : row.user_id = id)

\* C26 (a new reset request invalidates earlier ones): after any sequence
\* of POST /api/users/forgot-password calls for a local-auth user exactly
\* one password-reset token exists for that user, the one of the latest
\* call; every token of an earlier call has been deleted and is rejected by
\* reset-password; for an OAuth user no token is ever created.
C26_LatestResetOnly ==
    \A email \in Emails :
        LET id == UserByEmail(db, email)
            issued == IssuedFor(email)
        IN  IF id # Absent /\ db.users[id].auth_provider = "local"
            THEN Len(issued) > 0 =>
                    /\ Len(ResetTokensOf(id)) = 1
                    /\ ResetTokensOf(id)[1].token = issued[Len(issued)].token
                    /\ \A k \in 1..(Len(issued) - 1) :
                           /\ RowByToken(db.password_reset_tokens,
                                         issued[k].token) = 0
                           /\ \A new_password \in Passwords :
                                  reset_password(db, issued[k].token,
                                                 new_password, now).resp.status
                                      = 400
            ELSE /\ Len(issued) = 0
                 /\ id # Absent => Len(ResetTokensOf(id)) = 0

C26_Witness ==
    /\ last.op = "forgot"
    /\ last.email = "local@example.com"
    /\ Len(IssuedFor("local@example.com")) >= 2
    /\ Len(ResetTokensOf(1)) = 1
    /\ Len(IssuedFor("totp@example.com")) >= 1

\* the HTTP response of a route handler: status and body
Answer(resp) ==
    [status |-> resp.status, detail |-> resp.detail,
     access_token |-> resp.access_token, temp_token |-> resp.temp_token,
     refresh_token |-> resp.refresh_token, requires_2fa |-> resp.requires_2fa]

\* C27 (anti-enumeration): the response of POST /api/users/forgot-password,
\* status and body, is the same whether the email belongs to a local-auth
\* user, to an OAuth user or to no user.
C27_AntiEnumeration ==
    [][last'.op = "forgot" =>
          \A email \in Emails, email_sent \in BOOLEAN :
              Answer(forgot_password(db, email, email_sent, now).resp)
                  = Answer(last')]_vars

C27_Witness ==
    /\ last.op = "forgot"
    /\ last.status = 200
    /\ UserByEmail(db, last.email) # Absent
    /\ db.users[UserByEmail(db, last.email)].auth_provider = "google"
    /\ Len(IssuedFor("local@example.com")) >= 1

\* the users who have to pass the second factor
TwoFactorUsers == {id \in DOMAIN db.users : db.users[id].two_factor_enabled}

\* C28 (no access before the second factor): after a correct-password POST
\* /auth/login of a user with 2FA enabled, and until POST /auth/2fa-verify
\* succeeds with a valid code, the client has received no access token and
\* no refresh token, and no token it holds, the temp_token included, is
\* accepted as a credential by an endpoint protected by get_current_user.
C28_NoAccessBeforeSecondFactor ==
    \A id \in TwoFactorUsers \ held.verified :
        /\ \A row \in {db.refresh_tokens[i] : i \in 1..Len(db.refresh_tokens)} :
               row.user_id # id
        /\ \A token \in held.jwts :
               token.user_id = id => get_current_user(db, token, now) = Absent
        /\ (last.op = "me" /\ last.bearer.user_id = id) => last.status = 401

\* the request the step handles comes when the window of its endpoint has
\* fully elapsed since the last attempt of its key that was admitted
WindowElapsed ==
    /\ last'.op = "auth"
    /\ last'.path \in DOMAIN rate_limits
    /\ <<last'.ip, last'.path>> \in DOMAIN attempts
    /\ LET recs == attempts[<<last'.ip, last'.path>>]
       IN  /\ Len(recs) > 0
           /\ now - recs[Len(recs)].ts >= WindowOf(last'.path)

\* C29 as stated (monotone throttling of the auth limiter): once the window
\* has fully elapsed since the key's last admitted attempt, the next request
\* of the key is allowed, whatever rejected requests it sent in the meantime.
C29_AllowedAfterWindow ==
    [][WindowElapsed => last'.forwarded]_vars

\* C29 amended: once the window has fully elapsed since the key's last
\* admitted attempt, the next request of the key is allowed unless the key
\* is locked at that moment; a request rejected in the meantime can have
\* started a lockout that outlasts the window.
C29_AllowedAfterWindowUnlessLocked ==
    [][WindowElapsed =>
          LET key == <<last'.ip, last'.path>>
          IN  IF key \in DOMAIN lockouts /\ now < lockouts[key]
              THEN last'.status = 429 /\ last'.locked
              ELSE last'.forwarded /\ last'.count = 0]_vars

C29_Witness ==
    /\ last.op = "auth"
    /\ last.path = "/auth/login"
    /\ last.forwarded
    /\ last.unlocked
    /\ last.count = 0
    /\ last.t = 960
    /\ Len(attempts[<<last.ip, last.path>>]) = 1

\* the failed records of recs that are younger than 900 seconds at time t
FailedLately(recs, t) ==
    Len(SelectSeq(recs, LAMBDA r : r.failed /\ r.ts > t - 900))

\* C30 (frame of record_auth_failure): the call sets failed on the most
\* recently recorded attempt of the key and changes nothing else in the
\* attempt list; it then counts the failed records of the last 900 seconds
\* and enters Locked iff that count is at least 3; for a key without a
\* recorded attempt it changes neither the attempt store nor the lockout
\* store.
C30_FailureFrame ==
    [][last'.op = "fail" =>
          LET key == <<last'.ip, last'.path>>
              recs == Lookup(attempts, key)
              n == Len(recs)
          IN  IF n = 0
              THEN attempts' = attempts /\ lockouts' = lockouts
              ELSE /\ DOMAIN attempts' = DOMAIN attempts
                   /\ \A k \in DOMAIN attempts \ {key} :
                          attempts'[k] = attempts[k]
                   /\ Len(attempts'[key]) = n
                   /\ \A i \in 1..(n - 1) : attempts'[key][i] = recs[i]
                   /\ attempts'[key][n] = [ts |-> recs[n].ts, failed |-> TRUE]
                   /\ IF FailedLately(attempts'[key], now) >= 3
                      THEN /\ key \in DOMAIN lockouts'
                           /\ lockouts'[key] > now
                           /\ lockouts'[key]
                                  = now + ExpectedLockout(
                                              FailedLately(attempts'[key], now))
                           /\ \A k \in DOMAIN lockouts \ {key} :
                                  k \in DOMAIN lockouts'
                                  /\ lockouts'[k] = lockouts[k]
                      ELSE lockouts' = lockouts]_vars

C30_Witness ==
    /\ last.op = "fail"
    /\ last.failed_count = 3
    /\ <<last.ip, last.path>> \in DOMAIN lockouts
    /\ lockouts[<<last.ip, last.path>>] = last.t + 60
    /\ Len(attempts[<<last.ip, last.path>>]) >= 4
    /\ \E i \in 1..Len(attempts[<<last.ip, last.path>>]) :
           ~attempts[<<last.ip, last.path>>][i].failed

\* C31 (bounded per-key memory): after any sequence of requests and failure
\* reports, the list stored for a key holds no more records than the key's
\* limit: max_requests in the general limiter, the endpoint's max_attempts
\* in the auth limiter.
C31_BoundedPerKey ==
    /\ \A ip \in DOMAIN request_counts :
           Len(request_counts[ip]) <= max_requests
    /\ \A key \in DOMAIN attempts :
           Len(attempts[key]) <= Auth_limits(key[2])[1]

C31_Witness ==
    /\ last.op = "auth"
    /\ last.status = 429
    /\ last.t > 0
    /\ Len(attempts[<<last.ip, last.path>>]) = Auth_limits(last.path)[1]
    /\ \E i \in 1..Len(attempts[<<last.ip, last.path>>]) :
           attempts[<<last.ip, last.path>>][i].failed

\* recs holds a record that is younger than the window at time t
SeenLately(recs, t) ==
    \E i \in 1..Len(recs) : recs[i].ts > t - window_seconds

\* C32 (bulk eviction): when an admitted request leaves the general limiter
\* with more than 10,000 identities, the cleanup removes exactly the
\* identities without a record inside the current window; every identity
\* with a record inside the window keeps its records unchanged, and so does
\* the requester, whose list is its own records of the window and the new
\* one.
C32_BulkEviction ==
    [][(/\ last'.op = "rate"
        /\ last'.forwarded
        /\ ~RateLimit_exempt(last'.path)
        /\ Cardinality(DOMAIN request_counts \cup {last'.ip})
               > cleanup_threshold)
       => /\ DOMAIN request_counts'
                 = {ip \in DOMAIN request_counts :
                        SeenLately(request_counts[ip], now)} \cup {last'.ip}
          /\ \A ip \in DOMAIN request_counts' \ {last'.ip} :
                 request_counts'[ip] = request_counts[ip]
          /\ request_counts'[last'.ip]
                 = Append(InWindow(Lookup(request_counts, last'.ip), now,
                                   window_seconds),
                          [ts |-> now, count |-> 1])]_vars

\* an eviction has removed the identities of the first instant and kept,
\* with the requester, the late ones and a client that has used its quota
C32_Witness ==
    /\ last.op = "rate"
    /\ last.forwarded
    /\ last.t = now
    /\ now > FirstTick
    /\ Len(request_counts[last.ip]) = 1
    /\ "1" \notin DOMAIN request_counts
    /\ LateCrowd \subseteq DOMAIN request_counts
    /\ \E ip \in Clients \ {last.ip} :
           /\ ip \in DOMAIN request_counts
           /\ Len(request_counts[ip]) = max_requests
           /\ \A i \in 1..max_requests : request_counts[ip][i].ts = FirstTick

\* C33 (key independence): a request or a failure report for key K leaves,
\* for every other key, the attempts inside that key's window and the
\* lockout entry as they were: identities in the general limiter, pairs of
\* identity and endpoint in the auth limiter.
C33_KeyIndependence ==
    [][last'.op \in {"rate", "auth", "fail"} =>
          /\ \A ip \in (DOMAIN request_counts \cup DOMAIN request_counts')
                       \ {last'.ip} :
                 InWindow(Lookup(request_counts', ip), now, window_seconds)
                     = InWindow(Lookup(request_counts, ip), now,
                                window_seconds)
          /\ \A key \in (DOMAIN attempts \cup DOMAIN attempts'
                         \cup DOMAIN lockouts \cup DOMAIN lockouts')
                        \ {<<last'.ip, last'.path>>} :
                 /\ InWindow(Lookup(attempts', key), now,
                             Auth_limits(key[2])[2])
                        = InWindow(Lookup(attempts, key), now,
                                   Auth_limits(key[2])[2])
                 /\ (key \in DOMAIN lockouts') = (key \in DOMAIN lockouts)
                 /\ key \in DOMAIN lockouts =>
                        lockouts'[key] = lockouts[key]]_vars

\* a request of one key has had its expired lockout removed while another
\* key, with attempts inside its window, is locked out
C33_Witness ==
    /\ last.op = "auth"
    /\ last.unlocked
    /\ last.forwarded
    /\ \E key \in DOMAIN lockouts :
           /\ key # <<last.ip, last.path>>
           /\ lockouts[key] > now
           /\ key \in DOMAIN attempts
           /\ Len(attempts[key]) >= lockout_threshold

\* the longest a lockout lasts
LongestLockout == lockout_cap

\* C34 as stated (lockouts cancel themselves): a key that was Locked at t,
\* with no failure report for it since, is Open at every time from t + 900
\* on, whatever requests were sent to it.
C34_OpenAfterCap ==
    \A i \in 1..Len(journal.locked) :
        now >= journal.locked[i].ts + LongestLockout
            => ~Locked(lockouts, journal.locked[i].key, now)

\* C34 (lockouts cancel themselves): a key that was Locked at t, with no
\* failure report for it since and no request of it since that the full
\* window rejected with a new lockout, is Open at every time from t + 900
\* on, however many requests were sent to it while it was Locked.
C34_OpenAfterCapUnlessRelocked ==
    \A i \in 1..Len(journal.started) :
        now >= journal.started[i].ts + LongestLockout
            => ~Locked(lockouts, journal.started[i].key, now)

\* a key locked out at 0 has been asked while locked, and is admitted a
\* lockout cap later
C34_Witness ==
    /\ \E i \in 1..Len(journal.started) :
           /\ journal.started[i].ts = 0
           /\ journal.started[i].key = <<last.ip, last.path>>
    /\ now >= LongestLockout
    /\ last.op = "auth"
    /\ last.forwarded
    /\ last.t = now

\* the earliest instant from t on at which a window of w seconds holds fewer
\* than limit of the records recs
ReadmittedAt(recs, limit, t, w) ==
    LET inside == InWindow(recs, t, w)
    IN  IF Len(inside) < limit
        THEN t
        ELSE inside[Len(inside) - limit + 1].ts + w

\* C35 (rejected requests are never recorded): a request that either
\* limiter answers with 429 appends no record, a record comes into being
\* only through an admitted request and then with failed = FALSE, and a
\* rejected request leaves the instant at which the window admits the key
\* again where it was.
C35_RejectedNotRecorded ==
    [][/\ (last'.op = "rate" /\ last'.status = 429) =>
              LET old == Lookup(request_counts, last'.ip)
                  new == Lookup(request_counts', last'.ip)
              IN  /\ new \in {old, InWindow(old, now, window_seconds)}
                  /\ ReadmittedAt(new, max_requests, now, window_seconds)
                         = ReadmittedAt(old, max_requests, now, window_seconds)
       /\ (last'.op = "auth" /\ last'.status = 429) =>
              LET key == <<last'.ip, last'.path>>
                  old == Lookup(attempts, key)
                  new == Lookup(attempts', key)
                  w == Auth_limits(last'.path)[2]
                  limit == Auth_limits(last'.path)[1]
              IN  /\ new \in {old, InWindow(old, now, w)}
                  /\ ReadmittedAt(new, limit, now, w)
                         = ReadmittedAt(old, limit, now, w)
       /\ \A key \in DOMAIN attempts' :
              LET old == Lookup(attempts, key)
                  new == attempts'[key]
              IN  \/ \E k \in 0..Len(old) :
                         Stamps(new) = Stamps(SubSeq(old, k + 1, Len(old)))
                  \/ /\ last'.op = "auth"
                     /\ last'.forwarded
                     /\ key = <<last'.ip, last'.path>>
                     /\ new = Append(InWindow(old, now, Auth_limits(key[2])[2]),
                                     [ts |-> now, failed |-> FALSE])
       /\ \A ip \in DOMAIN request_counts' :
              LET old == Lookup(request_counts, ip)
                  new == request_counts'[ip]
              IN  \/ \E k \in 0..Len(old) : new = SubSeq(old, k + 1, Len(old))
                  \/ /\ last'.op = "rate"
                     /\ last'.forwarded
                     /\ ip = last'.ip
                     /\ new = Append(InWindow(old, now, window_seconds),
                                     [ts |-> now, count |-> 1])]_vars

\* a client that used its quota earlier asks again later and is rejected
\* once more, its records still those of the earlier instant
C35_Witness ==
    /\ last.op = "rate"
    /\ last.status = 429
    /\ Len(request_counts[last.ip]) = max_requests
    /\ \A i \in 1..max_requests : request_counts[last.ip][i].ts < now

\* C36 (the cap is out of reach): with the policy table as configured no
\* key ever has more than 5 failed records, so every lockout that a step
\* writes lasts at most 240 seconds and never the 900 seconds of the cap.
C36_CapUnreachable ==
    [][/\ \A p \in TrackedPaths : rate_limits[p][1] <= 5
       /\ \A key \in DOMAIN attempts' : FailedIn(attempts'[key]) <= 5
       /\ last'.failed_count <= 5
       /\ \A key \in DOMAIN lockouts' :
              (key \notin DOMAIN lockouts \/ lockouts'[key] # lockouts[key])
                  => /\ lockouts'[key] - now <= 240
                     /\ lockouts'[key] - now < lockout_cap]_vars

\* the longest lockout there is: five failed attempts, 240 seconds
C36_Witness ==
    /\ last.failed_count = 5
    /\ <<last.ip, last.path>> \in DOMAIN lockouts
    /\ lockouts[<<last.ip, last.path>>] = last.t + 240
    /\ FailedIn(attempts[<<last.ip, last.path>>]) = 5

\* how many headers of a response carry the name
Named(headers, name) ==
    Cardinality({i \in 1..Len(headers) : headers[i].name = name})

\* C37 (one set of rate-limit headers): the response to an allowed request
\* for a tracked auth endpoint, after it has passed both limiters on its
\* way back, carries exactly one X-RateLimit-Limit and exactly one
\* X-RateLimit-Remaining header.
C37_OneHeaderEach ==
    (last.op = "chain" /\ last.by = "app" /\ last.path \in TrackedPaths) =>
        /\ Named(last.headers, "x-ratelimit-limit") = 1
        /\ Named(last.headers, "x-ratelimit-remaining") = 1

\* C38 (no session binding at the interceptor): a signed, unexpired token
\* that generate_csrf_token issued for session A is accepted by the
\* interceptor on a state-changing request made in another session B.
C38_TokenOfAnotherSession ==
    (/\ last.op = "csrf"
     /\ CSRF_state_changing(last.method)
     /\ last.token = generate_token(last.token.session_id,
                                    last.token.issued_at)
     /\ last.token.session_id \in Sessions
     /\ last.session_id \in Sessions \ {last.token.session_id}
     /\ last.t - last.token.issued_at < token_expiration)
    => /\ last.forwarded
       /\ last.status = 0
       /\ last.raised = ""

\* the token of session s1 has been validated on a request of session s2
C38_Witness ==
    /\ CsrfValidated
    /\ last.token.kind = "signed"
    /\ last.token.session_id = "s1"
    /\ last.session_id = "s2"
    /\ last.t - last.token.issued_at < token_expiration
    /\ last.forwarded

\* two-factor authentication is enabled for no user without a secret
SecretWhereEnabled(dbv) ==
    \A id \in DOMAIN dbv.users :
        dbv.users[id].two_factor_enabled
            => dbv.users[id].two_factor_secret # ""

Migrating == {w \in Workers : workers[w].pc = "run_migrations"}

Serving == {w \in Workers : workers[w].pc = "serving"}

\* C40: at most one worker is inside run_migrations at any time, and no
\* worker is past its startup and serving while another worker is still
\* inside run_migrations.
C40_MigrationLock ==
    /\ Cardinality(Migrating) <= 1
    /\ Serving # {} => Migrating = {}

\* the first half alone: the lock is held for the whole of run_migrations
C40_OneMigrationAtATime ==
    /\ Cardinality(Migrating) <= 1
    /\ \A w \in Migrating : flock_holder = w

\* a worker gave up after its last attempt and serves without having run
\* the migrations, while the holder of the lock is still inside them
C40_ServingBesideMigration ==
    \E w \in Serving, v \in Migrating :
        /\ ~workers[w].migration_ran
        /\ workers[w].attempt = migration_attempts - 1

====
